---------------------------- MODULE Spec2Model ----------------------------
(***************************************************************************)
(* Verification model of the ECAD viewer core:                             *)
(*   - Project.load and the process-wide project snapshot cache            *)
(*     (packages/ecad-viewer/src/kicanvas/project.ts),                     *)
(*   - the viewer shell's load entry points, collapse flag and deferred    *)
(*     load (packages/ecad-viewer/src/ecad-viewer/ecad_viewer.ts),         *)
(*   - replay of a view state onto a loaded viewer and the origin of the   *)
(*     state-change notifications it causes.                               *)
(* Three specifications share the module: SpecCache, SpecShell, SpecReplay.*)
(***************************************************************************)
EXTENDS Integers, Sequences, FiniteSets, TLC

(***************************************************************************)
(* Bounds of the model.                                                    *)
(***************************************************************************)
MaxLoads == 4          \* Project.load calls in one behaviour
MaxTicks == 2          \* clock advances in one behaviour
MaxDisposes == 1       \* public Project.dispose() calls in one behaviour
MaxInFlight == 1       \* Project.load calls in flight at once in SpecCache, SpecShare
MaxShareLoads == 3     \* Project.load calls in one behaviour of SpecShare
MaxShareTicks == 1     \* clock advances in one behaviour of SpecShare
MaxFileLoads == 2      \* Project.load calls in one behaviour of SpecFiles
MaxRequests == 1       \* load requests of the host in one behaviour of SpecShell
MaxToggles == 2        \* collapse changes in one behaviour of SpecShell
MaxRestores == 1       \* setViewState calls in one behaviour of SpecShell
MaxReplays == 2        \* setViewState calls in one behaviour of SpecReplay
MaxPicks == 1          \* nets the user picks in one behaviour of SpecReplay
MaxBlobs == 2          \* blobs of a source set in SpecKey
MaxOps == 3            \* calls and writes of the host in one behaviour of SpecState
MaxRouteLoads == 2     \* Project.load calls in one behaviour of SpecRoute
MaxNameLen == 3        \* pieces of a net name in SpecLabel
MaxSnapLoads == 3      \* Project.load calls in one behaviour of SpecSnap
MaxRetryReplays == 2   \* setViewState calls in one behaviour of SpecRetry
MaxTwiceLoads == 3     \* Project.load calls in one behaviour of SpecTwice
MaxTwiceInFlight == 2  \* Project.load calls awaiting their files at once in SpecTwice
MaxPageLoads == 2      \* Project.load calls in one behaviour of SpecPages
MaxPage == 3           \* largest page number a sheet instance declares in SpecPages
MaxHighlights == 2     \* highlight_fp calls between two clicks on the background
MaxModuleCalls == 3    \* ensureEcadModule calls in one behaviour of SpecModules

(***************************************************************************)
(* Program constants.                                                      *)
(***************************************************************************)
PROJECT_CACHE_MAX == 3
PROJECT_CACHE_TTL_MS == 10 * 60 * 1000
HASH_PREFIX == 4096

(***************************************************************************)
(* Generic helpers.                                                        *)
(***************************************************************************)
Min(a, b) == IF a < b THEN a ELSE b

RECURSIVE BitXor(_, _)
BitXor(a, b) ==
    IF a = 0 THEN b
    ELSE IF b = 0 THEN a
    ELSE (((a % 2) + (b % 2)) % 2) + 2 * BitXor(a \div 2, b \div 2)

(***************************************************************************)
(* File names, contents and the files the server holds.                    *)
(* A file name is a stem and a suffix; a content is a sequence of UTF-16   *)
(* code units.                                                             *)
(***************************************************************************)
F_board == [stem |-> "board", suffix |-> ".kicad_pcb"]
F_root  == [stem |-> "root",  suffix |-> ".kicad_sch"]
F_child == [stem |-> "child", suffix |-> ".kicad_sch"]
F_pro   == [stem |-> "demo",  suffix |-> ".kicad_pro"]
F_notes == [stem |-> "notes", suffix |-> ".txt"]

\* the same kinds of file under names whose suffix is not in lower case
F_BOARD == [stem |-> "BOARD", suffix |-> ".KICAD_PCB"]
F_Leaf  == [stem |-> "Leaf",  suffix |-> ".Kicad_Sch"]
F_PRO   == [stem |-> "DEMO",  suffix |-> ".KICAD_PRO"]

C_board  == <<40, 98>>        \* "(b"  a board
C_board2 == <<40, 66>>        \* "(B"  another board
C_root   == <<40, 114>>       \* "(r"  root schematic, one sub-sheet
C_child  == <<40, 99>>        \* "(c"  leaf schematic
C_cjk    == <<40, 20013>>     \* "(" and U+4E2D: leaf schematic with a CJK label
C_broken == <<98>>            \* not an s-expression: the parser throws
C_pro    == <<123, 125>>      \* "{}"
C_text   == <<104, 105>>      \* "hi"

\* "(r0", "(r1", ...: the root schematic whose sub-sheet instance declares
\* page n
C_rootAt(n) == <<40, 114, 48 + n>>

RootContents == {C_rootAt(n) : n \in 0..MaxPage}

\* Contents one code unit longer than the prefix hashLite reads: all "a", and
\* the same with a "b" as the last unit of the prefix or as the unit after it.
C_long     == [i \in 1..(HASH_PREFIX + 1) |-> 97]
C_longEdge == [C_long EXCEPT ![HASH_PREFIX] = 98]
C_longTail == [C_long EXCEPT ![HASH_PREFIX + 1] = 98]

EndsWith(filename, suffix) == filename.suffix = suffix

\* What a successful fetch of a URL returns.
ServerContent(filename) ==
    CASE filename = F_board -> C_board
      [] filename = F_root  -> C_root
      [] filename = F_child -> C_child
      [] filename = F_pro   -> C_pro
      [] filename = F_BOARD -> C_board
      [] filename = F_Leaf  -> C_child
      [] filename = F_PRO   -> C_pro
      [] OTHER              -> C_text

(***************************************************************************)
(* hashLite / sourcesKey.  The 32-bit accumulator is kept as two 16-bit    *)
(* halves <<hi, lo>>; h = ((h << 5) + h) ^ c is 33*h xor c modulo 2^32.    *)
(***************************************************************************)
HashStep(h, c) ==
    LET lo33 == 33 * h[2]
        hi33 == 33 * h[1] + (lo33 \div 65536)
    IN  << (hi33 % 65536), BitXor((lo33 % 65536), c) >>

\* The loop over the first n code units of s.  The range is folded by halves
\* so that a content longer than the hashed prefix can be evaluated; the test
\* on the accumulator (a half is never negative) only fixes the order of
\* evaluation: the left part is computed before the right part is entered.
RECURSIVE HashRange(_, _, _, _)
HashRange(h, s, lo, hi) ==
    IF lo > hi THEN h
    ELSE IF lo = hi THEN HashStep(h, s[lo])
    ELSE IF h[1] < 0 THEN h
    ELSE HashRange(HashRange(h, s, lo, (lo + hi) \div 2), s,
                   ((lo + hi) \div 2) + 1, hi)

HashFold(h, s, n) == HashRange(h, s, 1, Min(n, Len(s)))

\* A hash that reads one code unit less than hashLite.
hashLite_ShortPrefix(s) ==
    << HashFold(<<0, 5381>>, s, Min(Len(s), HASH_PREFIX - 1)), Len(s) >>

\* 5381 = 0x00001505
hashLite(s) ==
    << HashFold(<<0, 5381>>, s, Min(Len(s), HASH_PREFIX)), Len(s) >>

sourcesKey(sources) ==
    [ u |-> sources.urls,
      b |-> [ i \in 1..Len(sources.blobs) |->
                << sources.blobs[i].filename,
                   hashLite(sources.blobs[i].content) >> ] ]


(***************************************************************************)
(* What the parsers make of a content.  The grammar parser and the BOM     *)
(* visitors are external collaborators: a content is an s-expression when  *)
(* it starts with "(", and each content stands for one fixed document.     *)
(***************************************************************************)
F_none == [stem |-> "", suffix |-> ""]

Parses(content) == content # <<>> /\ content[1] = 40

JsonParses(content) == content # <<>> /\ content[1] = 123

\* the CJK ranges tested by _load_blob: 4e00-9fff 3400-4dbf f900-faff 3040-309f ac00-d7af
IsCjkCode(c) ==
    \/ (c >= 19968 /\ c <= 40959)
    \/ (c >= 13312 /\ c <= 19903)
    \/ (c >= 63744 /\ c <= 64255)
    \/ (c >= 12352 /\ c <= 12447)
    \/ (c >= 44032 /\ c <= 55215)

MatchesCjk(content) == \E i \in 1..Len(content) : IsCjkCode(content[i])

DocUuid(content) ==
    CASE content = C_root  -> "u-root"
      [] content \in RootContents -> "u-root"
      [] content = C_child -> "u-child"
      [] content = C_cjk   -> "u-cjk"
      [] OTHER             -> "u-other"

\* The sub-sheets a schematic declares, each with its instances.
DocSheets(content) ==
    IF content = C_root
    THEN << [ sheetfile |-> F_child, uuid |-> "s-child", sheetname |-> "Child",
              instances |-> << [path |-> <<"u-root">>, page |-> 2] >> ] >>
    ELSE IF content \in RootContents
    THEN << [ sheetfile |-> F_child, uuid |-> "s-child", sheetname |-> "Child",
              instances |-> << [path |-> <<"u-root">>, page |-> content[3] - 48] >> ] >>
    ELSE <<>>

\* The labels of a schematic: text and uuid.
DocLabels(content) ==
    CASE content = C_root  -> << [text |-> "VCC", uuid |-> "l-root"] >>
      [] content = C_child -> << [text |-> "VCC", uuid |-> "l-child"] >>
      [] content = C_cjk   -> << [text |-> "GND", uuid |-> "l-cjk"] >>
      [] OTHER             -> <<>>

BomItem(ref, name, fp) ==
    [Reference |-> ref, Name |-> name, Footprint |-> fp, DNP |-> FALSE]

\* The items a BOM visitor collects from one document.
DocBomItems(content) ==
    CASE content = C_board  -> << BomItem("R1", "10k", "R0603"),
                                  BomItem("C1", "100n", "C0402"),
                                  BomItem("R2", "10k", "R0603") >>
      [] content = C_board2 -> << BomItem("U1", "MCU", "QFN32") >>
      [] content = C_root   -> << BomItem("R1", "10k", "R0603") >>
      [] content = C_child  -> << BomItem("R2", "10k", "R0603") >>
      [] content = C_cjk    -> << BomItem("D1", "LED", "D0603") >>
      [] OTHER              -> <<>>

NewDoc(kind, filename, content) ==
    [kind |-> kind, filename |-> filename, content |-> content]

(***************************************************************************)
(* Ordered maps (JavaScript Map): a sequence of <<key, value>> pairs in    *)
(* insertion order; set() on a present key keeps its position.             *)
(***************************************************************************)
MapHas(m, k) == \E i \in 1..Len(m) : m[i][1] = k

MapGet(m, k) == m[CHOOSE i \in 1..Len(m) : m[i][1] = k][2]

MapSet(m, k, v) ==
    IF MapHas(m, k)
    THEN [i \in 1..Len(m) |-> IF m[i][1] = k THEN <<k, v>> ELSE m[i]]
    ELSE Append(m, <<k, v>>)

MapKeys(m) == [i \in 1..Len(m) |-> m[i][1]]

MapValues(m) == [i \in 1..Len(m) |-> m[i][2]]

(***************************************************************************)
(* Project: the fields of one instance.                                    *)
(***************************************************************************)
NoPage == [filename |-> F_none, sheet_path |-> [path |-> <<>>, file |-> F_none],
           name |-> "-", page |-> [num |-> -1, file |-> F_none]]

NewProject ==
    [ files_by_name   |-> <<>>,     \* Map filename -> document
      file_content    |-> <<>>,     \* Map filename -> text
      pcb             |-> <<>>,
      sch             |-> <<>>,
      bom_items       |-> <<>>,
      label_name_refs |-> <<>>,     \* Map text -> array (a heap address)
      net_item_refs   |-> <<>>,     \* Map uuid -> NetRef
      designator_refs |-> {},
      project_name    |-> F_none.stem,
      settings        |-> "default",
      found_cjk       |-> FALSE,
      pages_by_path   |-> <<>>,     \* Map project_path -> page
      root_page       |-> NoPage,
      loaded          |-> FALSE ]

\* Project.dispose
dispose(p) ==
    [p EXCEPT !.pcb = <<>>, !.sch = <<>>, !.files_by_name = <<>>,
              !.pages_by_path = <<>>, !.file_content = <<>>,
              !.label_name_refs = <<>>, !.net_item_refs = <<>>,
              !.designator_refs = {}]

schematics(p) == SelectSeq(MapValues(p.files_by_name), LAMBDA d : d.kind = "sch")

boards(p) == SelectSeq(MapValues(p.files_by_name), LAMBDA d : d.kind = "pcb")

has_schematics(p) == Len(schematics(p)) > 0

has_boards(p) == Len(boards(p)) > 0


(***************************************************************************)
(* Project._load_blob.  The label arrays live in a heap so that a Map      *)
(* copy shares them.  The result says whether the call threw and whether   *)
(* it ran the parser.                                                      *)
(***************************************************************************)
NetRef(filename, text, uuid) == [filename |-> filename, name |-> text, uuid |-> uuid]

RECURSIVE AddLabels(_, _, _, _)
AddLabels(p, hp, filename, labels) ==
    IF labels = <<>> THEN [p |-> p, heap |-> hp]
    ELSE
      LET it   == Head(labels)
          ref  == NetRef(filename, it.text, it.uuid)
          has  == MapHas(p.label_name_refs, it.text)
          hp1  == IF has THEN hp ELSE Append(hp, <<>>)
          refs == IF has THEN p.label_name_refs
                  ELSE MapSet(p.label_name_refs, it.text, Len(hp1))
          addr == MapGet(refs, it.text)
          hp2  == [hp1 EXCEPT ![addr] = Append(@, ref)]
          p2   == [p EXCEPT !.net_item_refs = MapSet(@, it.uuid, ref),
                            !.label_name_refs = refs]
      IN  AddLabels(p2, hp2, filename, Tail(labels))

\* A _load_blob that parses and registers whatever it is given.
_load_blob_Again(p, hp, kind, blob) ==
    LET p1 == [p EXCEPT !.found_cjk = @ \/ MatchesCjk(blob.content)]
    IN
    IF ~Parses(blob.content)
    THEN [p |-> p1, heap |-> hp, ok |-> FALSE, parsed |-> 1]
    ELSE
      LET doc == NewDoc(kind, blob.filename, blob.content)
          p2  == [p1 EXCEPT !.files_by_name = MapSet(@, blob.filename, doc)]
          r   == IF kind = "pcb"
                 THEN [p |-> [p2 EXCEPT !.pcb = Append(@, doc)], heap |-> hp]
                 ELSE AddLabels([p2 EXCEPT !.sch = Append(@, doc)], hp,
                                doc.filename, DocLabels(doc.content))
      IN  [ p |-> [r.p EXCEPT !.file_content =
                                  MapSet(@, blob.filename, blob.content)],
            heap |-> r.heap, ok |-> TRUE, parsed |-> 1 ]

_load_blob(p, hp, kind, blob) ==
    LET p1 == [p EXCEPT !.found_cjk = @ \/ MatchesCjk(blob.content)]
    IN
    IF MapHas(p1.files_by_name, blob.filename)
    THEN [p |-> p1, heap |-> hp, ok |-> TRUE, parsed |-> 0]
    ELSE IF ~Parses(blob.content)
    THEN [p |-> p1, heap |-> hp, ok |-> FALSE, parsed |-> 1]
    ELSE
      LET doc == NewDoc(kind, blob.filename, blob.content)
          p2  == [p1 EXCEPT !.files_by_name = MapSet(@, blob.filename, doc)]
          r   == IF kind = "pcb"
                 THEN [p |-> [p2 EXCEPT !.pcb = Append(@, doc)], heap |-> hp]
                 ELSE AddLabels([p2 EXCEPT !.sch = Append(@, doc)], hp,
                                doc.filename, DocLabels(doc.content))
      IN  [ p |-> [r.p EXCEPT !.file_content =
                                  MapSet(@, blob.filename, blob.content)],
            heap |-> r.heap, ok |-> TRUE, parsed |-> 1 ]


(***************************************************************************)
(* Sequence folds used by the hierarchy and the BOM.                       *)
(***************************************************************************)
RECURSIVE Concat(_)
Concat(ss) == IF ss = <<>> THEN <<>> ELSE Head(ss) \o Concat(Tail(ss))

RECURSIVE MapFromPairs(_, _)
MapFromPairs(m, pairs) ==
    IF pairs = <<>> THEN m
    ELSE MapFromPairs(MapSet(m, Head(pairs)[1], Head(pairs)[2]), Tail(pairs))

\* Array.prototype.sort with a numeric comparator is stable: pairs
\* <<rank, element>> are ordered by rank, ties keep their order.
RECURSIVE InsertByRank(_, _)
InsertByRank(sorted, x) ==
    IF sorted = <<>> THEN <<x>>
    ELSE IF Head(sorted)[1] <= x[1]
         THEN <<Head(sorted)>> \o InsertByRank(Tail(sorted), x)
         ELSE <<x>> \o sorted

RECURSIVE SortByRank(_)
SortByRank(pairs) ==
    IF pairs = <<>> THEN <<>>
    ELSE InsertByRank(SortByRank(SubSeq(pairs, 1, Len(pairs) - 1)),
                      pairs[Len(pairs)])

\* sorted_by_numeric_strings(pages, p => p.page): numeric-aware order.
sorted_by_numeric_strings(pages) ==
    MapValues(SortByRank([i \in 1..Len(pages) |-> <<pages[i].page.num, pages[i]>>]))

(***************************************************************************)
(* ProjectPage and Project._determine_schematic_hierarchy.                 *)
(***************************************************************************)
ProjectPage(filename, sheet_path, name, page) ==
    [filename |-> filename, sheet_path |-> sheet_path, name |-> name, page |-> page]

project_path(page) == <<page.filename, page.sheet_path>>

SheetPath(path) == [path |-> path, file |-> F_none]

PageNumber(n) == [num |-> n, file |-> F_none]

paths_to_schematics(p) ==
    LET schs == schematics(p)
    IN  MapFromPairs(<<>>, [i \in 1..Len(schs) |->
                              << <<DocUuid(schs[i].content)>>, schs[i] >>])

paths_to_sheet_instances(p) ==
    LET schs == schematics(p)
        OfSheet(sheet) ==
            IF MapHas(p.files_by_name, sheet.sheetfile)
            THEN [k \in 1..Len(sheet.instances) |->
                    << Append(sheet.instances[k].path, sheet.uuid),
                       [sheet |-> sheet, instance |-> sheet.instances[k]] >>]
            ELSE <<>>
        OfSch(sch) ==
            LET sheets == DocSheets(sch.content)
            IN  Concat([j \in 1..Len(sheets) |-> OfSheet(sheets[j])])
    IN  MapFromPairs(<<>>, Concat([i \in 1..Len(schs) |-> OfSch(schs[i])]))

ParentPath(path) == SubSeq(path, 1, Len(path) - 1)

\* The index, in the paths sorted by length, of the first path whose parent
\* is a known schematic; 0 when there is none.
RootIndex(sortedPaths, toSch) ==
    LET hits == {i \in 1..Len(sortedPaths) :
                    /\ ParentPath(sortedPaths[i]) # <<>>
                    /\ MapHas(toSch, ParentPath(sortedPaths[i]))}
    IN  IF hits = {} THEN 0 ELSE CHOOSE i \in hits : \A j \in hits : i <= j

RECURSIVE SetPages(_, _)
SetPages(m, pages) ==
    IF pages = <<>> THEN m
    ELSE SetPages(MapSet(m, project_path(Head(pages)), Head(pages)), Tail(pages))

RECURSIVE AddOrphans(_, _, _)
AddOrphans(m, seen, schs) ==
    IF schs = <<>> THEN m
    ELSE
      LET sch  == Head(schs)
          page == ProjectPage([stem |-> "schematic", suffix |-> ""],
                              [path |-> <<>>, file |-> sch.filename],
                              DocUuid(sch.content),
                              [num |-> -1, file |-> sch.filename])
      IN  IF sch.filename \in seen
          THEN AddOrphans(m, seen, Tail(schs))
          ELSE AddOrphans(MapSet(m, project_path(page), page), seen, Tail(schs))

\* The paths of the sheet instances, shortest first.
SortedPaths(keys) ==
    MapValues(SortByRank([i \in 1..Len(keys) |-> <<Len(keys[i]), keys[i]>>]))

RootPage(root) ==
    ProjectPage(root.filename, SheetPath(<<DocUuid(root.content)>>), "Root",
                PageNumber(1))

\* The root page and one page per sheet instance, when a root was found.
HierarchyPages(toSch, toInst, paths, ri) ==
    IF ri = 0 THEN <<>>
    ELSE <<RootPage(MapGet(toSch, ParentPath(paths[ri])))>> \o
         [i \in 1..Len(toInst) |->
            ProjectPage(toInst[i][2].sheet.sheetfile,
                        SheetPath(toInst[i][1]),
                        toInst[i][2].sheet.sheetname,
                        PageNumber(toInst[i][2].instance.page))]

SeenFiles(m) == {m[i][2].filename : i \in 1..Len(m)}

\* The end of the function: the first page is the root page.
HierarchyResult(p, m, found) ==
    [ p |-> [p EXCEPT !.pages_by_path = m,
                      !.root_page = IF m = <<>> THEN NoPage ELSE m[1][2]],
      found_root |-> found ]

HierarchyWithPages(p, m, found) ==
    HierarchyResult(p, AddOrphans(m, SeenFiles(m), schematics(p)), found)

HierarchyWithRoot(p, toSch, toInst, paths, ri) ==
    HierarchyWithPages(
        p,
        SetPages(p.pages_by_path,
                 sorted_by_numeric_strings(HierarchyPages(toSch, toInst, paths, ri))),
        ri # 0)

HierarchyWithPaths(p, toSch, toInst, paths) ==
    HierarchyWithRoot(p, toSch, toInst, paths, RootIndex(paths, toSch))

HierarchyWithMaps(p, toSch, toInst) ==
    HierarchyWithPaths(p, toSch, toInst, SortedPaths(MapKeys(toInst)))

_determine_schematic_hierarchy(p) ==
    HierarchyWithMaps(p, paths_to_schematics(p), paths_to_sheet_instances(p))


(***************************************************************************)
(* Bill of materials: the visitors collect the items of the documents they *)
(* visit; _sort_bom groups them by footprint, value and DNP.               *)
(***************************************************************************)
file_by_name(p, name) ==
    IF MapHas(p.files_by_name, name) THEN <<MapGet(p.files_by_name, name)>> ELSE <<>>

VisitAll(docs) == Concat([i \in 1..Len(docs) |-> DocBomItems(docs[i].content)])

GroupKey(it) == <<it.Footprint, it.Name, it.DNP>>

RECURSIVE GroupItems(_, _)
GroupItems(groups, items) ==
    IF items = <<>> THEN groups
    ELSE
      LET it  == Head(items)
          key == GroupKey(it)
          g0  == IF MapHas(groups, key) THEN groups
                 ELSE MapSet(groups, key,
                             [Name |-> it.Name, Footprint |-> it.Footprint,
                              DNP |-> it.DNP, References |-> <<>>])
          g1  == MapSet(g0, key,
                        [MapGet(g0, key) EXCEPT !.References = Append(@, it.Reference)])
      IN  GroupItems(g1, Tail(items))

_sort_bom(bom_list) == MapValues(GroupItems(<<>>, bom_list))

\* The documents of the pages, in page order, that are schematics.
PageSchematics(p) ==
    LET pages == MapValues(p.pages_by_path)
    IN  SelectSeq(Concat([i \in 1..Len(pages) |-> file_by_name(p, pages[i].filename)]),
                  LAMBDA d : d.kind = "sch")

ComputeBom(p, has_root_sch) ==
    LET schDocs  == IF has_root_sch THEN PageSchematics(p) ELSE schematics(p)
        schList  == VisitAll(schDocs)
        pcbList  == VisitAll(boards(p))
        refsOf(l) == {l[i].Reference : i \in 1..Len(l)}
    IN  IF has_schematics(p) /\ schList # <<>>
        THEN [p EXCEPT !.designator_refs = refsOf(schList),
                       !.bom_items = _sort_bom(schList)]
        ELSE IF has_boards(p)
        THEN [p EXCEPT !.designator_refs = refsOf(pcbList),
                       !.bom_items = _sort_bom(pcbList)]
        ELSE IF has_schematics(p)
        THEN [p EXCEPT !.designator_refs = refsOf(schList),
                       !.bom_items = _sort_bom(<<>>)]
        ELSE [p EXCEPT !.bom_items = _sort_bom(<<>>)]

(***************************************************************************)
(* The snapshot cache: a Map key -> ProjectSnapshot.                       *)
(***************************************************************************)
MakeSnapshot(p, t) ==
    [ createdAt       |-> t,
      lastUsedAt      |-> t,
      files_by_name   |-> p.files_by_name,
      file_content    |-> p.file_content,
      pcb             |-> p.pcb,
      sch             |-> p.sch,
      bom_items       |-> p.bom_items,
      label_name_refs |-> p.label_name_refs,
      net_item_refs   |-> p.net_item_refs,
      designator_refs |-> p.designator_refs,
      project_name    |-> p.project_name,
      settings        |-> p.settings,
      found_cjk       |-> p.found_cjk,
      root_page       |-> p.root_page,
      pages           |-> MapValues(p.pages_by_path) ]

\* A restore that forgets the BOM: every container but bom_items is copied.
RestoreFromSnapshot_NoBom(p, cached) ==
    [ dispose(p) EXCEPT
        !.files_by_name   = cached.files_by_name,
        !.file_content    = cached.file_content,
        !.pcb             = cached.pcb,
        !.sch             = cached.sch,
        !.label_name_refs = cached.label_name_refs,
        !.net_item_refs   = cached.net_item_refs,
        !.designator_refs = cached.designator_refs,
        !.project_name    = cached.project_name,
        !.settings        = cached.settings,
        !.found_cjk       = cached.found_cjk,
        !.pages_by_path   = SetPages(<<>>, cached.pages),
        !.root_page       = cached.root_page,
        !.loaded          = TRUE ]

\* The cache-hit branch of Project.load: reset, then copy the containers.
RestoreFromSnapshot(p, cached) ==
    [ dispose(p) EXCEPT
        !.files_by_name   = cached.files_by_name,
        !.file_content    = cached.file_content,
        !.pcb             = cached.pcb,
        !.sch             = cached.sch,
        !.bom_items       = cached.bom_items,
        !.label_name_refs = cached.label_name_refs,
        !.net_item_refs   = cached.net_item_refs,
        !.designator_refs = cached.designator_refs,
        !.project_name    = cached.project_name,
        !.settings        = cached.settings,
        !.found_cjk       = cached.found_cjk,
        !.pages_by_path   = SetPages(<<>>, cached.pages),
        !.root_page       = cached.root_page,
        !.loaded          = TRUE ]

\* An eviction that sorts the wrong way round and deletes the newest entries.
LruVictims_Newest(c) ==
    LET items == SortByRank([i \in 1..Len(c) |-> <<c[i][2].lastUsedAt, c[i][1]>>])
        n     == Len(c) - PROJECT_CACHE_MAX
    IN  {items[Len(items) + 1 - i][2] : i \in 1..n}

\* The entries the LRU step of evictProjectCacheIfNeeded deletes.
LruVictims(c) ==
    LET items == SortByRank([i \in 1..Len(c) |-> <<c[i][2].lastUsedAt, c[i][1]>>])
        n     == Len(c) - PROJECT_CACHE_MAX
    IN  {items[i][2] : i \in 1..n}

evictProjectCacheIfNeeded(c, t) ==
    LET live == SelectSeq(c, LAMBDA e : ~(t - e[2].lastUsedAt > PROJECT_CACHE_TTL_MS))
    IN  IF Len(live) <= PROJECT_CACHE_MAX THEN live
        ELSE SelectSeq(live, LAMBDA e : e[1] \notin LruVictims(live))

\* A hit test that looks only at the presence of the entry.
IsCacheHit_NoTtl(c, key, t) ==
    MapHas(c, key)

\* The hit test of Project.load.
IsCacheHit(c, key, t) ==
    /\ MapHas(c, key)
    /\ t - MapGet(c, key).lastUsedAt <= PROJECT_CACHE_TTL_MS


(***************************************************************************)
(* The source sets the host hands to Project.load.                         *)
(***************************************************************************)
Blob(filename, content) == [filename |-> filename, content |-> content]

S_board == [urls |-> <<F_board>>, blobs |-> <<>>]
S_sheet == [urls |-> <<>>, blobs |-> <<Blob(F_root, C_root), Blob(F_child, C_child)>>]
S_mixed == [urls |-> <<F_board, F_root>>, blobs |-> <<Blob(F_pro, C_pro)>>]
S_other == [urls |-> <<>>, blobs |-> <<Blob(F_board, C_board2), Blob(F_notes, C_text)>>]
S_cjk   == [urls |-> <<>>, blobs |-> <<Blob(F_child, C_cjk)>>]
S_bad   == [urls |-> <<>>, blobs |-> <<Blob(F_board, C_broken)>>]
S_text  == [urls |-> <<>>, blobs |-> <<Blob(F_notes, C_text)>>]

Projects == {1, 2}

TickSteps == {PROJECT_CACHE_TTL_MS \div 2, PROJECT_CACHE_TTL_MS + 1}

(***************************************************************************)
(* State of the cache specification.                                       *)
(***************************************************************************)
VARIABLES
    now,          \* Date.now()
    cache,        \* projectSnapshotCache
    heap,         \* the label arrays, by address
    proj,         \* the Project instances
    loads,        \* the Project.load calls made so far
    glyphs,       \* NewStrokeGlyph.glyph_data holds the extended table
    nTicks,       \* clock advances so far
    nDisposes,    \* public dispose() calls so far
    nLoads,       \* Project.load calls so far
    firstEnd,     \* per cached key: the sources and end state of the load that wrote it
    ev,           \* what the last step of a Project did
    viewer,       \* the fields of one ECadViewer
    window,       \* window.zip_url, window.design_urls and the viewer's DOM children
    threads,      \* the async calls of the viewer that are suspended at an await
    nRequests,    \* load requests the host made so far
    nToggles,     \* collapse changes the host or the user made so far
    sev,          \* what the last step of the viewer did
    notes,        \* the view-state-change events the last step dispatched
    nReplays,     \* setViewState calls so far
    nPicks,       \* nets the user picked so far
    pair,         \* two source sets that differ in one place
    keys,         \* their cache keys, once computed
    store,        \* the view-state objects and the viewer fields around them
    host,         \* the view-state object the host holds, and where it got it
    nOps,         \* calls and writes of the host so far
    focus,        \* what the last step did to the board's layers and net focus
    block,        \* the editor block around the viewer: its data and its listener
    label,        \* a net name and the texts painted for it
    dyn,          \* a board viewer, its label layers and what its last draw did
    fp,           \* a board viewer's zone layers and what highlight_fp saved of them
    mods          \* the page's module cache and the imports under way

cvars == <<now, cache, heap, proj, loads, glyphs, nTicks, nDisposes, nLoads,
          firstEnd, ev>>

svars == <<viewer, window, threads, nRequests, nToggles, sev>>

rvars == <<notes, nReplays, nPicks>>

\* the variables of the specifications of single functions
\* the variables of the later specifications of single functions
yvars == <<dyn, fp, mods>>

xvars == <<pair, keys, store, host, nOps, focus, block, label, yvars>>

vars == <<cvars, svars, rvars, xvars>>

NoEvent ==
    [ type |-> "none", proj |-> 0, key |-> <<>>, fetches |-> 0, parses |-> 0,
      age |-> -1, eligible |-> FALSE, late |-> FALSE, added |-> FALSE,
      wrote |-> FALSE, evicted |-> {}, emitted |-> FALSE, failed |-> FALSE,
      cjk |-> FALSE ]

\* One file load started by Project.load: st is "fetching", "done" or "failed".
Task(filename, kind, st, net) ==
    [filename |-> filename, kind |-> kind, st |-> st, net |-> net, late |-> FALSE]

\* Project._load_file for one file of the fetch file system.
StartFile(p, filename) ==
    IF EndsWith(filename, ".kicad_sch") \/ EndsWith(filename, ".kicad_pcb")
    THEN LET kind == IF EndsWith(filename, ".kicad_sch") THEN "sch" ELSE "pcb"
         IN  IF MapHas(p.files_by_name, filename)
             THEN Task(filename, kind, "done", FALSE)
             ELSE Task(filename, kind, "fetching", ~MapHas(p.file_content, filename))
    ELSE IF EndsWith(filename, ".kicad_pro")
    THEN Task(filename, "meta", "fetching", ~MapHas(p.file_content, filename))
    ELSE Task(filename, "unknown", "done", FALSE)

\* The loop of Project.load over the blobs; acc carries the project, the
\* heap, the tasks pushed so far, the parser runs and whether load threw.
RECURSIVE LoadBlobs(_, _)
LoadBlobs(acc, blobs) ==
    IF blobs = <<>> \/ acc.threw THEN acc
    ELSE
      LET blob == Head(blobs)
          fn   == blob.filename
      IN
      IF EndsWith(fn, ".kicad_pcb") \/ EndsWith(fn, ".kicad_sch")
      THEN LET kind == IF EndsWith(fn, ".kicad_pcb") THEN "pcb" ELSE "sch"
               r    == _load_blob(acc.p, acc.heap, kind, blob)
           IN  LoadBlobs([acc EXCEPT !.p = r.p, !.heap = r.heap,
                             !.parses = @ + r.parsed,
                             !.tasks = Append(@, Task(fn, kind,
                                          IF r.ok THEN "done" ELSE "failed", FALSE))],
                         Tail(blobs))
      ELSE IF EndsWith(fn, ".kicad_pro")
      THEN IF JsonParses(blob.content)
           THEN LoadBlobs([acc EXCEPT !.p.project_name = fn.stem,
                                      !.p.settings = "loaded"], Tail(blobs))
           ELSE [acc EXCEPT !.p.project_name = fn.stem, !.threw = TRUE]
      ELSE LoadBlobs(acc, Tail(blobs))


(***************************************************************************)
(* Actions of the cache specification.                                     *)
(***************************************************************************)
Fetching(load) == {i \in 1..Len(load.tasks) : load.tasks[i].st = "fetching"}

Failed(load) == {i \in 1..Len(load.tasks) : load.tasks[i].st = "failed"}

\* A settled call with no file load in flight can no longer act.
Retire(ls) ==
    SelectSeq(ls, LAMBDA l : ~(l.status \in {"resolved", "rejected"} /\ Fetching(l) = {}))

\* dispose() was called on project pj: the file loads in flight on it are
\* from now on late.
MarkLate(ls, pj) ==
    [l \in 1..Len(ls) |->
        IF ls[l].proj # pj THEN ls[l]
        ELSE [ls[l] EXCEPT !.tasks =
                [i \in 1..Len(@) |->
                    IF @[i].st = "fetching" THEN [@[i] EXCEPT !.late = TRUE] ELSE @[i]]]]

\* The maps and arrays dispose() clears.
Containers(p) ==
    <<p.files_by_name, p.file_content, p.pcb, p.sch, p.pages_by_path,
      p.label_name_refs, p.net_item_refs, p.designator_refs>>

EndState(src, p) ==
    [src |-> src, files |-> MapKeys(p.files_by_name),
     pages |-> MapValues(p.pages_by_path), bom |-> p.bom_items]

\* A load of these sources completed earlier, and the entry it wrote is
\* still in the cache and was last used within the TTL.
Eligible(key, s) ==
    /\ MapHas(cache, key)
    /\ now - MapGet(cache, key).lastUsedAt <= PROJECT_CACHE_TTL_MS
    /\ MapHas(firstEnd, key)
    /\ MapGet(firstEnd, key).src = s

CacheStart ==
    /\ now = 0
    /\ cache = <<>>
    /\ heap = <<>>
    /\ proj = [pj \in Projects |-> NewProject]
    /\ loads = <<>>
    /\ glyphs = FALSE
    /\ nTicks = 0
    /\ nDisposes = 0
    /\ nLoads = 0
    /\ firstEnd = <<>>
    /\ ev = NoEvent

\* Project.load, cache-hit branch.
LoadHit(pj, s) ==
    LET key    == sourcesKey(s)
        cached == [MapGet(cache, key) EXCEPT !.lastUsedAt = now]
        c1     == evictProjectCacheIfNeeded(MapSet(cache, key, cached), now)
    IN
    /\ IsCacheHit(cache, key, now)
    /\ nLoads' = nLoads + 1
    /\ cache' = c1
    /\ proj' = [proj EXCEPT ![pj] = RestoreFromSnapshot(@, cached)]
    /\ loads' = MarkLate(loads, pj)
    /\ firstEnd' = SelectSeq(firstEnd, LAMBDA e : MapHas(c1, e[1]))
    /\ ev' = [NoEvent EXCEPT !.type = "hit", !.proj = pj, !.key = <<key>>,
                             !.age = now - MapGet(cache, key).lastUsedAt,
                             !.eligible = Eligible(key, s),
                             !.emitted = TRUE,
                             !.cjk = proj'[pj].found_cjk]
    /\ UNCHANGED <<now, heap, glyphs, nTicks, nDisposes>>
    /\ UNCHANGED <<svars, rvars, xvars>>

\* Project.load, cache-miss branch up to the await of Promise.all.
LoadMiss(pj, s) ==
    LET key   == sourcesKey(s)
        files == [i \in 1..Len(s.urls) |-> StartFile(proj[pj], s.urls[i])]
        acc   == LoadBlobs([p |-> proj[pj], heap |-> heap, tasks |-> files,
                            parses |-> 0, threw |-> FALSE], s.blobs)
        call  == [proj |-> pj, src |-> s, key |-> key,
                  status |-> IF acc.threw THEN "rejected" ELSE "wait",
                  tasks |-> acc.tasks]
    IN
    /\ ~IsCacheHit(cache, key, now)
    /\ nLoads' = nLoads + 1
    /\ proj' = [proj EXCEPT ![pj] = acc.p]
    /\ heap' = acc.heap
    /\ loads' = Retire(Append(loads, call))
    /\ ev' = [NoEvent EXCEPT !.type = "miss", !.proj = pj, !.key = <<key>>,
                             !.fetches = Cardinality({i \in 1..Len(files) :
                                            files[i].st = "fetching" /\ files[i].net}),
                             !.parses = acc.parses,
                             !.eligible = Eligible(key, s),
                             !.failed = acc.threw]
    /\ UNCHANGED <<now, cache, glyphs, nTicks, nDisposes, firstEnd>>
    /\ UNCHANGED <<svars, rvars, xvars>>


\* The tail of the cache-miss branch, after Promise.all and the glyph
\* import: hierarchy, BOM, gate, load event, snapshot write, eviction.
FinishLoad(l) ==
    LET call == loads[l]
        pj   == call.proj
        h    == IF has_schematics(proj[pj])
                THEN _determine_schematic_hierarchy(proj[pj])
                ELSE [p |-> proj[pj], found_root |-> FALSE]
        p3   == [ComputeBom(h.p, h.found_root) EXCEPT !.loaded = TRUE]
        c1   == MapSet(cache, call.key, MakeSnapshot(p3, now))
        c2   == evictProjectCacheIfNeeded(c1, now)
        gone == {i \in 1..Len(c1) : ~MapHas(c2, c1[i][1])}
    IN
    /\ proj' = [proj EXCEPT ![pj] = p3]
    /\ cache' = c2
    /\ firstEnd' = SelectSeq(MapSet(firstEnd, call.key, EndState(call.src, p3)),
                             LAMBDA e : MapHas(c2, e[1]))
    /\ loads' = Retire([loads EXCEPT ![l].status = "resolved"])
    /\ ev' = [NoEvent EXCEPT !.type = "final", !.proj = pj, !.key = <<call.key>>,
                             !.wrote = TRUE,
                             !.evicted = {c1[i][2].lastUsedAt : i \in gone},
                             !.emitted = TRUE,
                             !.failed = Failed(call) # {},
                             !.cjk = p3.found_cjk]

\* A fetch of one file answers: _load_doc goes on into _load_blob,
\* _load_meta parses the settings.
TaskResolve(l, i) ==
    LET call == loads[l]
        pj   == call.proj
        t    == call.tasks[i]
        text == IF ~t.net /\ MapHas(proj[pj].file_content, t.filename)
                THEN MapGet(proj[pj].file_content, t.filename)
                ELSE ServerContent(t.filename)
        r    == IF t.kind = "meta"
                THEN [p |-> IF JsonParses(text)
                            THEN [proj[pj] EXCEPT !.settings = "loaded"]
                            ELSE proj[pj],
                      heap |-> heap, ok |-> JsonParses(text), parsed |-> 0]
                ELSE _load_blob(proj[pj], heap, t.kind, Blob(t.filename, text))
    IN
    /\ t.st = "fetching"
    /\ proj' = [proj EXCEPT ![pj] = r.p]
    /\ heap' = r.heap
    /\ loads' = Retire([loads EXCEPT ![l].tasks[i].st =
                                        IF r.ok THEN "done" ELSE "failed"])
    /\ ev' = [NoEvent EXCEPT !.type = "resolve", !.proj = pj, !.parses = r.parsed,
                             !.late = t.late,
                             !.added = Containers(r.p) # Containers(proj[pj])]
    /\ UNCHANGED <<now, cache, glyphs, nTicks, nDisposes, nLoads, firstEnd>>
    /\ UNCHANGED <<svars, rvars, xvars>>

\* A fetch of one file fails.
TaskFail(l, i) ==
    /\ loads[l].tasks[i].st = "fetching"
    /\ loads[l].tasks[i].net
    /\ loads' = Retire([loads EXCEPT ![l].tasks[i].st = "failed"])
    /\ ev' = NoEvent
    /\ UNCHANGED <<now, cache, heap, proj, glyphs, nTicks, nDisposes, nLoads, firstEnd>>
    /\ UNCHANGED <<svars, rvars, xvars>>

\* await Promise.all(promises) rejects: Project.load throws.
LoadReject(l) ==
    /\ loads[l].status = "wait"
    /\ Failed(loads[l]) # {}
    /\ loads' = Retire([loads EXCEPT ![l].status = "rejected"])
    /\ ev' = [NoEvent EXCEPT !.type = "reject", !.proj = loads[l].proj,
                             !.key = <<loads[l].key>>, !.failed = TRUE]
    /\ UNCHANGED <<now, cache, heap, proj, glyphs, nTicks, nDisposes, nLoads, firstEnd>>
    /\ UNCHANGED <<svars, rvars, xvars>>

\* A load that goes on to the load event without asking whether CJK text
\* was seen.
LoadSettle_Unasked(l) ==
    /\ loads[l].status = "wait"
    /\ Failed(loads[l]) = {} /\ Fetching(loads[l]) = {}
    /\ FinishLoad(l)
    /\ UNCHANGED <<now, heap, glyphs, nTicks, nDisposes, nLoads>>
    /\ UNCHANGED <<svars, rvars, xvars>>

\* await Promise.all(promises) resolves and no CJK text was seen.
LoadSettle(l) ==
    /\ loads[l].status = "wait"
    /\ Failed(loads[l]) = {} /\ Fetching(loads[l]) = {}
    /\ ~proj[loads[l].proj].found_cjk
    /\ FinishLoad(l)
    /\ UNCHANGED <<now, heap, glyphs, nTicks, nDisposes, nLoads>>
    /\ UNCHANGED <<svars, rvars, xvars>>

\* await Promise.all(promises) resolves and CJK text was seen: the glyph
\* table is imported first.
GlyphImport(l) ==
    /\ loads[l].status = "wait"
    /\ Failed(loads[l]) = {} /\ Fetching(loads[l]) = {}
    /\ proj[loads[l].proj].found_cjk
    /\ loads' = [loads EXCEPT ![l].status = "glyph"]
    /\ ev' = NoEvent
    /\ UNCHANGED <<now, cache, heap, proj, glyphs, nTicks, nDisposes, nLoads, firstEnd>>
    /\ UNCHANGED <<svars, rvars, xvars>>

GlyphDone(l) ==
    /\ loads[l].status = "glyph"
    /\ glyphs' = TRUE
    /\ FinishLoad(l)
    /\ UNCHANGED <<now, heap, nTicks, nDisposes, nLoads>>
    /\ UNCHANGED <<svars, rvars, xvars>>

\* The owner of a Project disposes it (the viewer leaves the document).
Dispose(pj) ==
    /\ nDisposes' = nDisposes + 1
    /\ proj' = [proj EXCEPT ![pj] = dispose(@)]
    /\ loads' = MarkLate(loads, pj)
    /\ ev' = NoEvent
    /\ UNCHANGED <<now, cache, heap, glyphs, nTicks, nLoads, firstEnd>>
    /\ UNCHANGED <<svars, rvars, xvars>>

Tick(d) ==
    /\ nTicks' = nTicks + 1
    /\ now' = now + d
    /\ ev' = NoEvent
    /\ UNCHANGED <<cache, heap, proj, loads, glyphs, nDisposes, nLoads, firstEnd>>
    /\ UNCHANGED <<svars, rvars, xvars>>


(***************************************************************************)
(* The viewer: the load entry points of ECadViewer, collapse, the deferred *)
(* load and the replay of a saved view state.  A suspended async call is a *)
(* thread: pc is the await it sits at, what the resource it loads, entry   *)
(* the entry point that started it, cont what its caller does when it      *)
(* returns, zip whether it runs inside load_zip (whose try/catch swallows  *)
(* a failed project load).                                                 *)
(***************************************************************************)
VIEW_STATE_RETRY_MAX == 50

NoDeferred == [kind |-> "none", what |-> "none"]

Deferred(kind, what) == [kind |-> kind, what |-> what]

\* The layers a board shows in its layers panel, LayerSet.in_ui_order().
UILayers == {"F.Cu", "B.Cu"}

\* Opacities, in tenths.
Opacities == {0, 5, 10}

\* A pcb.layers map that names no layer.
NoLayers == [l \in {} |-> TRUE]

\* A Partial<EcadViewerViewState>: the collapsed flag and
\* pcb.nets.selectedNetNumber, each present or not; net 0 is null.  It has
\* no pcb.layers and no pcb.objects until WithPcb adds them.
ViewState(hasCollapsed, collapsed, hasNet, net) ==
    [hasCollapsed |-> hasCollapsed, collapsed |-> collapsed,
     hasNet |-> hasNet, net |-> net,
     layers |-> NoLayers, hasTracks |-> FALSE, tracks |-> 0]

\* The fragment with pcb.layers (a map from some layer names to booleans) and
\* pcb.objects.tracksOpacity.
WithPcb(fragment, layers, hasTracks, tracks) ==
    [fragment EXCEPT !.layers = layers, !.hasTracks = hasTracks, !.tracks = tracks]

\* Whether the fragment has the key pcb.
HasPcb(fragment) ==
    fragment.hasNet \/ fragment.hasTracks \/ DOMAIN fragment.layers # {}

\* { ...a, ...b } of two name-keyed maps
SpreadMap(a, b) ==
    [l \in DOMAIN a \cup DOMAIN b |-> IF l \in DOMAIN b THEN b[l] ELSE a[l]]

NoViewState == ViewState(FALSE, FALSE, FALSE, 0)

Thread(pc, what, entry, cont, zip) ==
    [pc |-> pc, what |-> what, entry |-> entry, cont |-> cont, zip |-> zip]

NoExpand ==
    [happened |-> FALSE, had |-> NoDeferred, loaded |-> FALSE, loading |-> FALSE,
     started |-> <<>>]

\* The fields of a viewer after construction, with those of its board app,
\* board viewer, painter and nets panel.
NewViewer(clone, override) ==
    [ is_viewer_collapsed        |-> FALSE,
      loaded                     |-> FALSE,
      loading                    |-> FALSE,
      deferred_load              |-> NoDeferred,
      fullscreen_original        |-> clone,
      is_full_screen             |-> FALSE,
      initial_sources_override   |-> override,
      view_state                 |-> NoViewState,
      pending_view_state         |-> NoViewState,
      view_state_retry_scheduled |-> FALSE,
      view_state_retry_count     |-> 0,
      mounted                    |-> FALSE,
      board_app                  |-> FALSE,
      board_viewer               |-> FALSE,
      listeners                  |-> FALSE,
      nets_panel                 |-> FALSE,
      menu_selected              |-> 0,
      should_restore_visibility  |-> FALSE,
      filter_net                 |-> 0,
      layer_visible              |-> [l \in UILayers |-> TRUE],
      visibilities               |-> [l \in UILayers |-> TRUE],
      overlay                    |-> 0,
      copper_opacity             |-> 10 ]

\* What a call works on: the viewer, its threads, the events dispatched so
\* far and, for the properties, who is at the bottom of the call stack (the
\* user's gesture or a replay) and what the step did.
Work(v, th, cause) ==
    [v |-> v, th |-> th, cause |-> cause, notes |-> <<>>, fetches |-> 0,
     fetchCollapsed |-> FALSE, exp |-> NoExpand, proceeded |-> TRUE,
     cleared |-> 0, updates |-> 0]

isPageFullscreenActive(v) == v.is_full_screen \/ v.fullscreen_original

\* #merge_view_state: the fragment's keys override those of #view_state.
merge_view_state(v, fragment) ==
    [v EXCEPT !.view_state =
        WithPcb(ViewState(@.hasCollapsed \/ fragment.hasCollapsed,
                          IF fragment.hasCollapsed THEN fragment.collapsed ELSE @.collapsed,
                          @.hasNet \/ fragment.hasNet,
                          IF fragment.hasNet THEN fragment.net ELSE @.net),
                SpreadMap(@.layers, fragment.layers),
                @.hasTracks \/ fragment.hasTracks,
                IF fragment.hasTracks THEN fragment.tracks ELSE @.tracks)]

\* { ...pending, ...cloneViewState(state) }: the fragment's pcb, when it has
\* one, takes the place of the pending one.
merge_pending(pending, fragment) ==
    LET pcb == IF HasPcb(fragment) THEN fragment ELSE pending
    IN  WithPcb(ViewState(pending.hasCollapsed \/ fragment.hasCollapsed,
                          IF fragment.hasCollapsed THEN fragment.collapsed
                          ELSE pending.collapsed,
                          pcb.hasNet, pcb.net),
                pcb.layers, pcb.hasTracks, pcb.tracks)

\* #emit_view_state_change(origin); the default of origin is "user".
emit_view_state_change(st, origin) ==
    [st EXCEPT !.notes = Append(@, [origin |-> origin, cause |-> st.cause,
                                    viewState |-> st.v.view_state])]

\* #setup_project up to its await of Project.load; urls is the number of
\* files the project has to fetch.
setup_project(st, what, entry, cont, zip, urls) ==
    [st EXCEPT !.v.loaded = FALSE,
               !.v.loading = TRUE,
               !.th = Append(@, Thread("sp_load", what, entry, cont, zip)),
               !.fetches = @ + urls,
               !.fetchCollapsed = @ \/ (urls > 0 /\ st.v.is_viewer_collapsed)]

\* The tail of load_src: the sources are the ecad-source / ecad-blob children.
load_dom(st, entry) ==
    setup_project(st, "dom", entry, "none", FALSE, window.dom_urls)

RECURSIVE RunCont(_, _, _)
RECURSIVE load_window_zip_url(_, _, _, _)

\* load_window_zip_url up to its await of fetch(url).
load_window_zip_url(st, url, entry, cont) ==
    IF st.v.is_viewer_collapsed
    THEN RunCont([st EXCEPT !.v.deferred_load = Deferred("zipUrl", url)], cont, entry)
    ELSE [st EXCEPT !.th = Append(@, Thread("zu_fetch", url, entry, cont, FALSE)),
                    !.fetches = @ + 1]

\* What the caller of a returned load_window_zip_url goes on to do:
\* "after_sch" is load_src after its await of the schematic,
\* "after_pcb" the then() of do_load_pcb.
RunCont(st, cont, entry) ==
    IF cont = "after_sch"
    THEN IF window.pcb_url THEN load_window_zip_url(st, "pcb_url", entry, "after_pcb")
         ELSE IF window.glb_url THEN load_window_zip_url(st, "glb_url", entry, "none")
         ELSE load_dom(st, entry)
    ELSE IF cont = "after_pcb"
    THEN IF window.glb_url THEN load_window_zip_url(st, "glb_url", entry, "none")
         ELSE st
    ELSE st

\* load_zip up to its await of the unzip.
load_zip(st, file, entry, cont) ==
    IF st.v.is_viewer_collapsed
    THEN RunCont([st EXCEPT !.v.deferred_load = Deferred("zipBlob", file)], cont, entry)
    ELSE [st EXCEPT !.th = Append(@, Thread("lz_unzip", file, entry, cont, TRUE))]

\* A load_src that records its descriptor whatever is recorded already.
load_src_Overwrite(st, entry) ==
    IF st.v.is_viewer_collapsed
    THEN [st EXCEPT !.v.deferred_load = Deferred("src", "none")]
    ELSE IF window.zip_url
    THEN load_window_zip_url(st, "zip_url", entry, "none")
    ELSE IF window.design_urls /\ window.sch_url
    THEN load_window_zip_url(st, "sch_url", entry, "after_sch")
    ELSE IF window.design_urls /\ window.pcb_url
    THEN load_window_zip_url(st, "pcb_url", entry, "after_pcb")
    ELSE IF window.design_urls /\ window.glb_url
    THEN load_window_zip_url(st, "glb_url", entry, "none")
    ELSE load_dom(st, entry)

load_src(st, entry) ==
    IF st.v.is_viewer_collapsed
    THEN IF st.v.deferred_load = NoDeferred
         THEN [st EXCEPT !.v.deferred_load = Deferred("src", "none")]
         ELSE st
    ELSE IF window.zip_url
    THEN load_window_zip_url(st, "zip_url", entry, "none")
    ELSE IF window.design_urls /\ window.sch_url
    THEN load_window_zip_url(st, "sch_url", entry, "after_sch")
    ELSE IF window.design_urls /\ window.pcb_url
    THEN load_window_zip_url(st, "pcb_url", entry, "after_pcb")
    ELSE IF window.design_urls /\ window.glb_url
    THEN load_window_zip_url(st, "glb_url", entry, "none")
    ELSE load_dom(st, entry)

\* A deferred load that forgets to clear its descriptor.
run_deferred_load_if_needed_Keep(st) ==
    LET d == st.v.deferred_load IN
    IF st.v.is_viewer_collapsed THEN st
    ELSE IF st.v.loading THEN st
    ELSE IF st.v.loaded THEN [st EXCEPT !.v.deferred_load = NoDeferred]
    ELSE IF d = NoDeferred THEN st
    ELSE IF d.kind = "zipUrl"
    THEN load_window_zip_url(st, d.what, "load_window_zip_url", "none")
    ELSE IF d.kind = "zipBlob" THEN load_zip(st, d.what, "load_zip", "none")
    ELSE load_src(st, "load_src")

run_deferred_load_if_needed(st) ==
    LET d   == st.v.deferred_load
        st1 == [st EXCEPT !.v.deferred_load = NoDeferred]
    IN
    IF st.v.is_viewer_collapsed THEN st
    ELSE IF st.v.loading THEN st
    ELSE IF st.v.loaded THEN st1
    ELSE IF d = NoDeferred THEN st
    ELSE IF d.kind = "zipUrl"
    THEN load_window_zip_url(st1, d.what, "load_window_zip_url", "none")
    ELSE IF d.kind = "zipBlob" THEN load_zip(st1, d.what, "load_zip", "none")
    ELSE load_src(st1, "load_src")

\* What an expand found and what it started, kept for the properties.
Expanded(before, after) ==
    [after EXCEPT !.exp =
        [happened |-> TRUE,
         had      |-> before.v.deferred_load,
         loaded   |-> before.v.loaded,
         loading  |-> before.v.loading,
         started  |-> SubSeq(after.th, Len(before.th) + 1, Len(after.th))]]

\* The end of setViewerCollapsed: the flag goes into #view_state and the
\* change is announced.
collapsed_changed(st, origin) ==
    emit_view_state_change(
        [st EXCEPT !.v = merge_view_state(@,
                            ViewState(TRUE, st.v.is_viewer_collapsed, FALSE, 0))],
        origin)

\* A flag change that renders again whether the viewer is loaded or not.
collapsed_flag_set_Rerender(st, collapsed) ==
    [st EXCEPT !.v.is_viewer_collapsed = collapsed, !.updates = @ + 1]

\* setViewerCollapsed up to its call of update(): the flag is set, and a
\* viewer that is not loaded renders again.
collapsed_flag_set(st, collapsed) ==
    IF ~st.v.loaded
    THEN [st EXCEPT !.v.is_viewer_collapsed = collapsed, !.updates = @ + 1]
    ELSE [st EXCEPT !.v.is_viewer_collapsed = collapsed]

\* A setViewerCollapsed that does not ask whether the page is full screen.
setViewerCollapsed_InFullscreen(st, collapsed, origin) ==
    collapsed_changed(
        IF st.v.is_viewer_collapsed /\ ~collapsed
        THEN Expanded(st, run_deferred_load_if_needed(collapsed_flag_set(st, collapsed)))
        ELSE collapsed_flag_set(st, collapsed),
        origin)

setViewerCollapsed(st, collapsed, origin) ==
    IF isPageFullscreenActive(st.v) THEN st
    ELSE collapsed_changed(
           IF st.v.is_viewer_collapsed /\ ~collapsed
           THEN Expanded(st, run_deferred_load_if_needed(collapsed_flag_set(st, collapsed)))
           ELSE collapsed_flag_set(st, collapsed),
           origin)

\* KCBoardNetsPanelElement.setSettings and #apply_pending_settings: the menu
\* shows the selection.
nets_panel_setSettings(st, net) ==
    IF st.v.nets_panel THEN [st EXCEPT !.v.menu_selected = net] ELSE st

\* The listener #setup_project puts on "kicanvas:net-focus-change".
on_net_focus_change(st) ==
    IF ~st.v.listeners THEN st
    ELSE nets_panel_setSettings(
           emit_view_state_change(
             [st EXCEPT !.v = merge_view_state(@, ViewState(FALSE, FALSE, TRUE, 0))],
             "user"),
           0)

\* The listener #setup_project puts on the select event of the board viewer.
on_board_select(st, net) ==
    IF ~st.v.listeners \/ net = 0 THEN st
    ELSE nets_panel_setSettings(
           emit_view_state_change(
             [st EXCEPT !.v = merge_view_state(@, ViewState(FALSE, FALSE, TRUE, net))],
             "user"),
           net)

\* BoardPainter.paint_net: whether it painted.
paint_net(v, num) == ~(v.filter_net = num) /\ num # 0

\* The layers panel keeps the visibility its user chose for every layer of
\* in_ui_order(); BoardViewer.layer_visibility reads that map.
layer_visibility(v) == v.visibilities

\* KCBoardLayersPanelElement.setVisibilities: the named layers take the
\* given visibility, in the panel and on the board.
setVisibilities(v, layers) ==
    [v EXCEPT !.visibilities = SpreadMap(@, layers),
              !.layer_visible = SpreadMap(@, layers)]

\* BoardPainter.paint_net from its third statement on: the painter remembers
\* the net and paints it into the two overlay layers.
painted_net(v, num) == [v EXCEPT !.filter_net = num, !.overlay = num]

\* The body of "if (num)" in highlight_net: every layer of in_ui_order() is
\* hidden, to be restored later.
hide_for_focus(v) ==
    [v EXCEPT !.should_restore_visibility = TRUE,
              !.layer_visible = [l \in UILayers |-> FALSE]]

\* BoardViewer.highlight_net
highlight_net(st, num) ==
    LET st1 == IF paint_net(st.v, num)
               THEN [st EXCEPT !.v = hide_for_focus(painted_net(@, num))]
               ELSE st
    IN  IF num # 0 THEN on_board_select(st1, num) ELSE st1

\* BoardViewer.focus_net
focus_net(st, num) == highlight_net(st, num)

\* A restore that shows every layer instead of asking the panel.
restore_visibility_ShowAll(v) ==
    [v EXCEPT !.layer_visible = [l \in UILayers |-> TRUE],
              !.should_restore_visibility = FALSE,
              !.overlay = 0]

\* The body of "if (this.#should_restore_visibility)" in clear_net_focus and
\* on_document_clicked: the layers get the panel's visibility back and
\* painter.clear_interactive() empties the overlay layers.
restore_visibility(v) ==
    [v EXCEPT !.layer_visible = layer_visibility(v),
              !.should_restore_visibility = FALSE,
              !.overlay = 0]

\* The dispatch of "kicanvas:net-focus-change" with netNumber null.
dispatch_net_focus_cleared(st) ==
    on_net_focus_change([st EXCEPT !.cleared = @ + 1])

\* A clear_net_focus that reports only a focus it has ended.
clear_net_focus_Silent(st) ==
    IF st.v.should_restore_visibility
    THEN dispatch_net_focus_cleared([st EXCEPT !.v = restore_visibility(@)])
    ELSE st

\* BoardViewer.clear_net_focus
clear_net_focus(st) ==
    dispatch_net_focus_cleared(
        IF st.v.should_restore_visibility
        THEN [st EXCEPT !.v = restore_visibility(@)]
        ELSE st)

\* BoardViewer.on_document_clicked, for a board whose footprints were not
\* highlighted.
on_document_clicked(st) ==
    IF st.v.should_restore_visibility
    THEN dispatch_net_focus_cleared([st EXCEPT !.v = restore_visibility(@)])
    ELSE st

\* The pcb.layers part of #apply_view_state; the layers panel is there once
\* the board viewer is.
apply_layers(st, fragment) ==
    IF DOMAIN fragment.layers # {} /\ st.v.board_app /\ st.v.board_viewer
    THEN [st EXCEPT !.v = setVisibilities(@, fragment.layers)]
    ELSE st

\* The pcb.objects part of #apply_view_state: BoardViewer.track_opacity sets
\* the opacity of the copper layers.
apply_objects(st, fragment) ==
    IF fragment.hasTracks /\ st.v.board_app /\ st.v.board_viewer
    THEN [st EXCEPT !.v.copper_opacity = fragment.tracks]
    ELSE st

\* The pcb.nets part of #apply_view_state.
apply_nets(st, fragment) ==
    IF fragment.hasNet /\ st.v.board_app
    THEN nets_panel_setSettings(
           IF ~st.v.board_viewer THEN st
           ELSE IF fragment.net = 0 THEN clear_net_focus(st)
           ELSE focus_net(st, fragment.net),
           fragment.net)
    ELSE st

\* Whether #apply_view_state found everything it needed.
apply_complete(st, fragment) ==
    /\ HasPcb(fragment) => st.v.board_app
    /\ DOMAIN fragment.layers # {} => st.v.board_viewer
    /\ fragment.hasNet => (st.v.board_app /\ st.v.board_viewer /\ st.v.nets_panel)

apply_after_collapse(st, fragment) ==
    [st |-> emit_view_state_change(
              apply_nets(apply_objects(apply_layers(st, fragment), fragment), fragment),
              "restore"),
     complete |-> apply_complete(st, fragment)]

\* #apply_view_state; the result carries whether the fragment was applied
\* completely.
apply_view_state(st, fragment) ==
    apply_after_collapse(
        IF fragment.hasCollapsed
        THEN setViewerCollapsed(st, fragment.collapsed, "restore")
        ELSE st,
        fragment)

\* #schedule_view_state_retry up to its call of later().
schedule_view_state_retry(st) ==
    IF st.v.view_state_retry_scheduled THEN st
    ELSE IF ~st.v.loaded THEN st
    ELSE IF st.v.pending_view_state = NoViewState THEN st
    ELSE IF st.v.view_state_retry_count > VIEW_STATE_RETRY_MAX THEN st
    ELSE [st EXCEPT !.v.view_state_retry_scheduled = TRUE,
                    !.v.view_state_retry_count = @ + 1]

\* What the callers of #apply_view_state do with its answer once the
\* fragment is the pending state: forget it, or try again later.
after_apply(r) ==
    IF r.complete THEN [r.st EXCEPT !.v.pending_view_state = NoViewState]
    ELSE schedule_view_state_retry(r.st)

\* setViewState once it knows what #apply_view_state answered.
setViewState_applied(r, state) ==
    IF r.complete THEN r.st
    ELSE schedule_view_state_retry(
           [r.st EXCEPT !.v.pending_view_state = merge_pending(@, state)])

\* setViewState after #merge_view_state.
setViewState_merged(st, state) ==
    IF ~st.v.loaded
    THEN [st EXCEPT !.v.pending_view_state = merge_pending(@, state)]
    ELSE setViewState_applied(apply_view_state(st, state), state)

\* setViewState after the collapsed flag was applied.
setViewState_collapsed(st, state) ==
    setViewState_merged([st EXCEPT !.v = merge_view_state(@, state)], state)

setViewState(st, state) ==
    setViewState_collapsed(
        IF state.hasCollapsed
        THEN setViewerCollapsed(st, state.collapsed, "restore")
        ELSE st,
        state)

DropThread(th, i) == SubSeq(th, 1, i - 1) \o SubSeq(th, i + 1, Len(th))

ProjectLoadsInFlight == {i \in 1..Len(threads) : threads[i].pc = "sp_load"}

NoShellEvent ==
    [type |-> "none", fetches |-> 0, fetchCollapsed |-> FALSE, exp |-> NoExpand,
     wasCollapsed |-> FALSE, newThreads |-> 0, proceeded |-> TRUE,
     updates |-> 0]

ShellEvent(type, st) ==
    [type |-> type, fetches |-> st.fetches, fetchCollapsed |-> st.fetchCollapsed,
     exp |-> st.exp, wasCollapsed |-> viewer.is_viewer_collapsed,
     newThreads |-> Len(st.th) - Len(threads), proceeded |-> st.proceeded,
     updates |-> st.updates]

\* The page around the viewer: window.zip_url, window.design_urls and its
\* three URLs, the number of ecad-source children of the viewer, and whether
\* the design they all hold has a board.
Window(zip, design, sch, pcb, glb, dom, hasBoards) ==
    [zip_url |-> zip, design_urls |-> design, sch_url |-> sch, pcb_url |-> pcb,
     glb_url |-> glb, dom_urls |-> dom, has_boards |-> hasBoards]

Windows ==
    { Window(TRUE,  FALSE, FALSE, FALSE, FALSE, 0, TRUE),
      Window(FALSE, TRUE,  TRUE,  FALSE, FALSE, 1, TRUE),
      Window(FALSE, TRUE,  TRUE,  TRUE,  TRUE,  0, TRUE),
      Window(FALSE, TRUE,  FALSE, TRUE,  FALSE, 0, TRUE),
      Window(FALSE, FALSE, FALSE, FALSE, FALSE, 1, TRUE) }

ShellIdle ==
    /\ viewer = NewViewer(FALSE, FALSE)
    /\ window = Window(FALSE, FALSE, FALSE, FALSE, FALSE, 0, FALSE)
    /\ threads = <<>>
    /\ nRequests = 0
    /\ nToggles = 0
    /\ nReplays = 0
    /\ nPicks = 0
    /\ notes = <<>>
    /\ sev = NoShellEvent

\* A viewer is either an ordinary one or the clone a full-screen viewer makes
\* of itself, with or without the sources of the original.
ShellStart ==
    /\ \E clone \in BOOLEAN, override \in BOOLEAN :
          /\ override => clone
          /\ viewer = NewViewer(clone, override)
    /\ window \in Windows
    /\ threads = <<>>
    /\ nRequests = 0
    /\ nToggles = 0
    /\ nReplays = 0
    /\ nPicks = 0
    /\ notes = <<>>
    /\ sev = NoShellEvent

\* An ordinary viewer whose sources are its ecad-source children.
ReplayStart ==
    /\ viewer = NewViewer(FALSE, FALSE)
    /\ \E hasBoards \in BOOLEAN :
          window = Window(FALSE, FALSE, FALSE, FALSE, FALSE, 1, hasBoards)
    /\ threads = <<>>
    /\ nRequests = 0
    /\ nToggles = 0
    /\ nReplays = 0
    /\ nPicks = 0
    /\ notes = <<>>
    /\ sev = NoShellEvent

Commit(type, st) ==
    /\ viewer' = st.v
    /\ threads' = st.th
    /\ notes' = st.notes
    /\ sev' = ShellEvent(type, st)

\* initialContentCallback: the viewer is connected to the document.
Mount(autoLoad) ==
    LET st0 == Work([viewer EXCEPT !.mounted = TRUE], threads, "host")
        st  == IF viewer.initial_sources_override
               THEN setup_project([st0 EXCEPT !.v.initial_sources_override = FALSE],
                                  "override", "override", "none", FALSE,
                                  window.dom_urls)
               ELSE IF autoLoad THEN load_src(st0, "load_src")
               ELSE st0
    IN
    /\ ~viewer.mounted
    /\ Commit(IF viewer.initial_sources_override \/ autoLoad THEN "request" ELSE "mount", st)
    /\ UNCHANGED <<window, nRequests, nToggles, nReplays, nPicks>>
    /\ UNCHANGED <<cvars, xvars>>

\* The host calls load_src().
HostLoadSrc ==
    /\ Commit("request", load_src(Work(viewer, threads, "host"), "load_src"))
    /\ nRequests' = nRequests + 1
    /\ UNCHANGED <<window, nToggles, nReplays, nPicks>>
    /\ UNCHANGED <<cvars, xvars>>

\* The host calls load_zip(file).
HostLoadZip ==
    /\ Commit("request",
              load_zip(Work(viewer, threads, "host"), "file", "load_zip", "none"))
    /\ nRequests' = nRequests + 1
    /\ UNCHANGED <<window, nToggles, nReplays, nPicks>>
    /\ UNCHANGED <<cvars, xvars>>

\* The host calls load_window_zip_url(url).
HostLoadZipUrl ==
    /\ Commit("request",
              load_window_zip_url(Work(viewer, threads, "host"), "url",
                                  "load_window_zip_url", "none"))
    /\ nRequests' = nRequests + 1
    /\ UNCHANGED <<window, nToggles, nReplays, nPicks>>
    /\ UNCHANGED <<cvars, xvars>>

\* The user clicks the collapse button: toggleViewerCollapsed.
ToggleCollapsed ==
    /\ Commit("collapse",
              setViewerCollapsed(Work(viewer, threads, "ui"),
                                 ~viewer.is_viewer_collapsed, "user"))
    /\ nToggles' = nToggles + 1
    /\ UNCHANGED <<window, nRequests, nReplays, nPicks>>
    /\ UNCHANGED <<cvars, xvars>>

\* The host replays a saved view state: setViewState(state).
SetViewState(state) ==
    /\ Commit("replay", setViewState(Work(viewer, threads, "replay"), state))
    /\ nReplays' = nReplays + 1
    /\ UNCHANGED <<window, nRequests, nToggles, nPicks>>
    /\ UNCHANGED <<cvars, xvars>>

\* The callback #schedule_view_state_retry handed to later().
RetryViewState ==
    LET st0 == Work([viewer EXCEPT !.view_state_retry_scheduled = FALSE],
                    threads, "replay")
    IN
    /\ viewer.view_state_retry_scheduled
    /\ Commit("replay",
              IF ~viewer.loaded \/ viewer.pending_view_state = NoViewState THEN st0
              ELSE after_apply(apply_view_state(st0, viewer.pending_view_state)))
    /\ UNCHANGED <<window, nRequests, nToggles, nReplays, nPicks>>
    /\ UNCHANGED <<cvars, xvars>>

\* fetch(url) of load_window_zip_url answers: load_zip takes over.
ZipFetchDone(i) ==
    /\ threads[i].pc = "zu_fetch"
    /\ Commit("fetched",
              [load_zip(Work(viewer, DropThread(threads, i), "host"),
                        threads[i].what, threads[i].entry, threads[i].cont)
                  EXCEPT !.proceeded = ~viewer.is_viewer_collapsed])
    /\ UNCHANGED <<window, nRequests, nToggles, nReplays, nPicks>>
    /\ UNCHANGED <<cvars, xvars>>

\* fetch(url) fails: load_window_zip_url rejects and its caller with it.
ZipFetchFail(i) ==
    /\ threads[i].pc = "zu_fetch"
    /\ threads' = DropThread(threads, i)
    /\ notes' = <<>>
    /\ sev' = NoShellEvent
    /\ UNCHANGED <<viewer, window, nRequests, nToggles, nReplays, nPicks>>
    /\ UNCHANGED <<cvars, xvars>>

\* The archive is unzipped and read: load_zip calls #setup_project.
UnzipDone(i) ==
    LET t  == threads[i]
        st == setup_project(Work(viewer, DropThread(threads, i), "host"),
                            t.what, t.entry, t.cont, TRUE, 0)
    IN
    /\ t.pc = "lz_unzip"
    /\ Commit("continue", st)
    /\ UNCHANGED <<window, nRequests, nToggles, nReplays, nPicks>>
    /\ UNCHANGED <<cvars, xvars>>

\* Project.load resolves: #setup_project goes on to update().
ProjectLoadDone(i) ==
    /\ threads[i].pc = "sp_load"
    /\ viewer' = [viewer EXCEPT !.loaded = TRUE]
    /\ threads' = [threads EXCEPT ![i].pc = "sp_update"]
    /\ notes' = <<>>
    /\ sev' = [NoShellEvent EXCEPT !.type = "continue",
                                   !.wasCollapsed = viewer.is_viewer_collapsed]
    /\ UNCHANGED <<window, nRequests, nToggles, nReplays, nPicks>>
    /\ UNCHANGED <<cvars, xvars>>

\* Project.load rejects: #setup_project leaves through its finally; load_zip
\* swallows the error and returns, any other caller rejects.
ProjectLoadFail(i) ==
    LET t   == threads[i]
        st0 == Work([viewer EXCEPT !.loading = FALSE], DropThread(threads, i), "host")
        st  == IF t.zip THEN RunCont(st0, t.cont, t.entry) ELSE st0
    IN
    /\ t.pc = "sp_load"
    /\ Commit("failed", st)
    /\ UNCHANGED <<window, nRequests, nToggles, nReplays, nPicks>>
    /\ UNCHANGED <<cvars, xvars>>

\* update() resolves: render() has made a new board app when the project
\* has a board, whose viewer may or may not exist yet; #setup_project puts
\* its listeners on that viewer, applies the pending view state, leaves
\* through its finally, and the caller of the load goes on.
setup_project_updated(i, ready) ==
    LET v0  == [viewer EXCEPT !.board_app = window.has_boards,
                              !.board_viewer = window.has_boards /\ ready,
                              !.listeners = window.has_boards /\ ready,
                              !.nets_panel = FALSE,
                              !.menu_selected = 0,
                              !.should_restore_visibility = FALSE,
                              !.filter_net = 0,
                              !.layer_visible = [l \in UILayers |-> TRUE],
                              !.visibilities = [l \in UILayers |-> TRUE],
                              !.overlay = 0,
                              !.copper_opacity = 10]
        st0 == Work(v0, DropThread(threads, i), "replay")
    IN
    RunCont([ (IF v0.pending_view_state = NoViewState THEN st0
               ELSE after_apply(apply_view_state(st0, v0.pending_view_state)))
                EXCEPT !.v.loading = FALSE],
            threads[i].cont, threads[i].entry)

UpdateDone(i, ready) ==
    /\ threads[i].pc = "sp_update"
    /\ Commit("continue", setup_project_updated(i, ready))
    /\ UNCHANGED <<window, nRequests, nToggles, nReplays, nPicks>>
    /\ UNCHANGED <<cvars, xvars>>

\* The board viewer of the board app comes into being after #setup_project
\* looked for it: nobody listens to it.
BoardViewerReady ==
    /\ viewer.board_app /\ ~viewer.board_viewer
    /\ viewer' = [viewer EXCEPT !.board_viewer = TRUE]
    /\ notes' = <<>>
    /\ sev' = NoShellEvent
    /\ UNCHANGED <<window, threads, nRequests, nToggles, nReplays, nPicks>>
    /\ UNCHANGED <<cvars, xvars>>

\* The nets panel of the board app is rendered.
NetsPanelReady ==
    /\ viewer.board_app /\ viewer.board_viewer /\ ~viewer.nets_panel
    /\ viewer' = [viewer EXCEPT !.nets_panel = TRUE]
    /\ notes' = <<>>
    /\ sev' = NoShellEvent
    /\ UNCHANGED <<window, threads, nRequests, nToggles, nReplays, nPicks>>
    /\ UNCHANGED <<cvars, xvars>>

\* The user picks a net in the nets panel: the panel's select listener
\* focuses the net and reports the selection, which the viewer's
\* board-nets-settings-change listener merges and passes on.
UserPickNet(net) ==
    LET st0 == focus_net(Work([viewer EXCEPT !.menu_selected = net], threads, "ui"), net)
        st1 == emit_view_state_change(
                 [st0 EXCEPT !.v = merge_view_state(@, ViewState(FALSE, FALSE, TRUE, net))],
                 "user")
    IN
    /\ viewer.nets_panel /\ ~viewer.is_viewer_collapsed
    /\ Commit("ui", st1)
    /\ nPicks' = nPicks + 1
    /\ UNCHANGED <<window, nRequests, nToggles, nReplays>>
    /\ UNCHANGED <<cvars, xvars>>

\* The user clicks an empty spot of the board: BoardViewer.on_document_clicked.
UserClickBlank ==
    /\ viewer.board_viewer /\ ~viewer.is_viewer_collapsed
    /\ viewer.should_restore_visibility
    /\ Commit("ui", on_document_clicked(Work(viewer, threads, "ui")))
    /\ UNCHANGED <<window, nRequests, nToggles, nReplays, nPicks>>
    /\ UNCHANGED <<cvars, xvars>>


(***************************************************************************)
(* The view state as JavaScript objects.  An object is its primitive       *)
(* fields f (key -> integer; a boolean is 0 or 1, null is 0) and its       *)
(* object-valued fields r (key -> address); objs[a] is the object at       *)
(* address a, and address 0 is null.                                       *)
(***************************************************************************)
Obj(f, r) == [f |-> f, r |-> r]

NoFields == [k \in {} |-> 0]

EmptyObj == Obj(NoFields, NoFields)

\* { ...a, ...b }
Spread(a, b) ==
    Obj([k \in DOMAIN a.f \cup DOMAIN b.f |->
            IF k \in DOMAIN b.f THEN b.f[k] ELSE a.f[k]],
        [k \in DOMAIN a.r \cup DOMAIN b.r |->
            IF k \in DOMAIN b.r THEN b.r[k] ELSE a.r[k]])

\* o[key] = value, for a primitive and for an object
SetField(h, a, key, value) ==
    [h EXCEPT ![a].f = [k \in DOMAIN @ \cup {key} |-> IF k = key THEN value ELSE @[k]]]

SetRef(h, a, key, b) ==
    [h EXCEPT ![a].r = [k \in DOMAIN @ \cup {key} |-> IF k = key THEN b ELSE @[k]]]

Children(h, S) == S \cup UNION { {h[a].r[k] : k \in DOMAIN h[a].r} : a \in S }

\* The objects a view state consists of: it is at most four objects deep
\* (the state, pcb, pcb.objects, pcb.objects.objectVisibilities).
Reach(h, S) == Children(h, Children(h, Children(h, S \ {0})))

Rank(S, x) == Cardinality({y \in S : y < x})

\* The objects R copied to the end of the heap, references between them
\* redirected to the copies.
CopyOf(h, R) ==
    h \o [ i \in 1..Cardinality(R) |->
             Obj(h[CHOOSE x \in R : Rank(R, x) = i - 1].f,
                 [k \in DOMAIN h[CHOOSE x \in R : Rank(R, x) = i - 1].r |->
                     Len(h) + 1 + Rank(R, h[CHOOSE x \in R : Rank(R, x) = i - 1].r[k])]) ]

\* cloneViewState(v): structuredClone, or JSON.parse(JSON.stringify(v)) - a
\* deep copy either way.  The heap after the call, and where the clone is.
cloneViewState(h, a) == CopyOf(h, Reach(h, {a}))

CloneAddr(h, a) == Len(h) + 1 + Rank(Reach(h, {a}), a)

\* What an object holds, with no addresses: its keys by path, a primitive
\* with its value and an object with -1.
RECURSIVE Value(_, _)
Value(h, a) ==
    {<< <<k>>, h[a].f[k] >> : k \in DOMAIN h[a].f}
    \cup UNION { {<< <<k>>, -1 >>}
                 \cup {<< <<k>> \o e[1], e[2] >> : e \in Value(h, h[a].r[k])}
               : k \in DOMAIN h[a].r }

Paths(V) == {e[1] : e \in V}

Leaves(V) == {e \in V : e[2] # -1}

\* V with the entries of W put over it
Over(V, W) == {e \in V : e[1] \notin Paths(W)} \cup W

(***************************************************************************)
(* The viewer's view-state store on these objects.  w is what a call works *)
(* on: the heap, the viewer's fields, the viewState of the notification    *)
(* dispatched last (detail) and a record of what the call merged and       *)
(* replayed.  ready stands for the tab header, the board app and its       *)
(* panels being rendered.                                                  *)
(***************************************************************************)
\* one of pcb.layers, pcb.objects, pcb.nets:
\*   if (fragment.pcb.sub) next.pcb.sub = { ...(next.pcb.sub || {}), ...fragment.pcb.sub }
MergeSub(h, npcb, fpcb, sub) ==
    IF sub \notin DOMAIN h[fpcb].r THEN h
    ELSE SetRef(Append(h, Spread(IF sub \in DOMAIN h[npcb].r
                                 THEN h[h[npcb].r[sub]] ELSE EmptyObj,
                                 h[h[fpcb].r[sub]])),
                npcb, sub, Len(h) + 1)

MergeSubs(h, npcb, fpcb) ==
    MergeSub(MergeSub(MergeSub(h, npcb, fpcb, "layers"), npcb, fpcb, "objects"),
             npcb, fpcb, "nets")

\* next.pcb = next.pcb || {}
EnsurePcb(h, next) ==
    IF "pcb" \in DOMAIN h[next].r THEN h
    ELSE SetRef(Append(h, EmptyObj), next, "pcb", Len(h) + 1)

MergePcbAt(h, next, fpcb) == MergeSubs(h, h[next].r["pcb"], fpcb)

MergePcb(h, next, frag) ==
    IF "pcb" \notin DOMAIN h[frag].r THEN h
    ELSE MergePcbAt(EnsurePcb(h, next), next, h[frag].r["pcb"])

\* if (fragment.activeTab) next.activeTab = fragment.activeTab
MergeTab(h, next, frag) ==
    IF "activeTab" \in DOMAIN h[frag].f /\ h[frag].f["activeTab"] # 0
    THEN SetField(h, next, "activeTab", h[frag].f["activeTab"])
    ELSE h

\* if (hasOwnProperty(fragment, "collapsed")) next.collapsed = !!fragment.collapsed
MergeCollapsed(h, next, frag) ==
    IF "collapsed" \in DOMAIN h[frag].f
    THEN SetField(h, next, "collapsed", IF h[frag].f["collapsed"] # 0 THEN 1 ELSE 0)
    ELSE h

MergeInto(h, next, frag) ==
    MergePcb(MergeCollapsed(MergeTab(h, next, frag), next, frag), next, frag)

\* #merge_view_state(fragment), fragment being the object at frag
merge_view_state_objects(w, frag) ==
    [w EXCEPT !.objs = MergeInto(cloneViewState(@, w.view_state),
                                 CloneAddr(@, w.view_state), frag),
              !.view_state = CloneAddr(w.objs, w.view_state),
              !.merged = @ \cup Paths(Value(w.objs, frag))]

\* #emit_view_state_change: the detail carries getViewState()
emit_view_state_change_objects(w) ==
    [w EXCEPT !.objs = cloneViewState(@, w.view_state),
              !.detail = CloneAddr(w.objs, w.view_state)]

\* setViewerCollapsed of a viewer that is not full screen, as far as the
\* view state goes: #merge_view_state({ collapsed }) and the notification.
setViewerCollapsed_objects(w, collapsed) ==
    emit_view_state_change_objects(
        merge_view_state_objects(
            [w EXCEPT !.objs = Append(@, Obj("collapsed" :> collapsed, NoFields)),
                      !.is_viewer_collapsed = (collapsed = 1),
                      !.replayed = Over(@, {<< <<"collapsed">>, collapsed >>})],
            Len(w.objs) + 1))

CollapseFirst(w, frag) ==
    IF "collapsed" \in DOMAIN w.objs[frag].f
    THEN setViewerCollapsed_objects(w, IF w.objs[frag].f["collapsed"] # 0 THEN 1 ELSE 0)
    ELSE w

\* Whether #apply_view_state can hand every part of the fragment on.
Complete(w, frag) ==
    \/ w.ready
    \/ ~( \/ ("activeTab" \in DOMAIN w.objs[frag].f /\ w.objs[frag].f["activeTab"] # 0)
          \/ "pcb" \in DOMAIN w.objs[frag].r )

\* #apply_view_state(fragment): the collapsed flag, then the tab, the layers,
\* the objects and the nets when their elements exist, then the notification.
apply_view_state_objects(w, frag) ==
    emit_view_state_change_objects(
        [CollapseFirst(w, frag) EXCEPT
            !.replayed = IF w.ready
                         THEN Over(@, Leaves(Value(w.objs, frag)) \ {e \in Leaves(Value(w.objs, frag)) : e[1] = <<"collapsed">>})
                         ELSE @])

\* this.#pending_view_state = { ...(this.#pending_view_state || {}), ...cloneViewState(state) }
keep_pending(w, frag) ==
    [w EXCEPT !.objs = Append(cloneViewState(@, frag),
                              Spread(IF w.pending_view_state = 0 THEN EmptyObj
                                     ELSE w.objs[w.pending_view_state],
                                     cloneViewState(w.objs, frag)[CloneAddr(w.objs, frag)])),
              !.pending_view_state = Len(cloneViewState(w.objs, frag)) + 1]

\* what the callers of #apply_view_state do with its answer
applied_objects(w, complete, frag, isPending) ==
    IF complete
    THEN (IF isPending THEN [w EXCEPT !.pending_view_state = 0] ELSE w)
    ELSE (IF isPending THEN w ELSE keep_pending(w, frag))

\* setViewState(state) after its call of setViewerCollapsed
setViewState_objects_merged(w, frag) ==
    IF ~w.loaded
    THEN [keep_pending(w, frag) EXCEPT
             !.submitted = Over(@, Leaves(Value(w.objs, frag)))]
    ELSE applied_objects(apply_view_state_objects(w, frag), Complete(w, frag), frag, FALSE)

setViewState_objects(w, frag) ==
    setViewState_objects_merged(merge_view_state_objects(CollapseFirst(w, frag), frag), frag)

\* Only the objects some root reaches are kept, in the order they have.
Compact(h, R) ==
    [ i \in 1..Cardinality(R) |->
        Obj(h[CHOOSE x \in R : Rank(R, x) = i - 1].f,
            [k \in DOMAIN h[CHOOSE x \in R : Rank(R, x) = i - 1].r |->
                1 + Rank(R, h[CHOOSE x \in R : Rank(R, x) = i - 1].r[k])]) ]

Moved(R, a) == IF a = 0 THEN 0 ELSE 1 + Rank(R, a)

\* The fragments the host writes down, each as the objects it consists of;
\* the first is the fragment, a reference counts from it.
L_layers    == << Obj(NoFields, "pcb" :> 2), Obj(NoFields, "layers" :> 3),
                  Obj("F.Cu" :> 0, NoFields) >>
L_net       == << Obj(NoFields, "pcb" :> 2), Obj(NoFields, "nets" :> 3),
                  Obj("selectedNetNumber" :> 1, NoFields) >>
L_reference == << Obj(NoFields, "pcb" :> 2), Obj(NoFields, "objects" :> 3),
                  Obj(NoFields, "objectVisibilities" :> 4),
                  Obj("Reference" :> 0, NoFields) >>
L_values    == << Obj(NoFields, "pcb" :> 2), Obj(NoFields, "objects" :> 3),
                  Obj(NoFields, "objectVisibilities" :> 4),
                  Obj("Values" :> 0, NoFields) >>
L_opacity   == << Obj(NoFields, "pcb" :> 2), Obj(NoFields, "objects" :> 3),
                  Obj("tracksOpacity" :> 50, NoFields) >>
L_collapsed == << Obj("collapsed" :> 1, NoFields) >>
L_tab       == << Obj("activeTab" :> 2, NoFields) >>

Literals == {L_layers, L_net, L_reference, L_values, L_opacity, L_collapsed, L_tab}

Shifted(lit, n) ==
    [ i \in 1..Len(lit) |->
        Obj(lit[i].f, [k \in DOMAIN lit[i].r |-> lit[i].r[k] + n - 1]) ]

NewStore ==
    [ objs                |-> << EmptyObj >>,
      view_state          |-> 1,
      pending_view_state  |-> 0,
      loaded              |-> FALSE,
      ready               |-> FALSE,
      is_viewer_collapsed |-> FALSE,
      detail              |-> 0,
      merged              |-> {},
      submitted           |-> {},
      replayed            |-> {},
      step                |-> "none" ]

StoreIdle ==
    /\ store = NewStore
    /\ host = [held |-> 0, from |-> "none"]
    /\ nOps = 0

Begin == [store EXCEPT !.merged = {}, !.detail = 0]

StoreCommitAt(w, held, from, type, R) ==
    /\ store' = [w EXCEPT !.objs = Compact(w.objs, R),
                          !.view_state = Moved(R, @),
                          !.pending_view_state = Moved(R, @),
                          !.detail = 0,
                          !.step = type]
    /\ host' = [held |-> Moved(R, held), from |-> from]

StoreCommit(w, held, from, type) ==
    StoreCommitAt(w, held, from, type,
                  Reach(w.objs, {w.view_state, w.pending_view_state, held}))

\* After a call that dispatched notifications the host holds what it held,
\* or the viewState of the last notification when its listener kept it.
Listened(w, keep, held, from, type) ==
    /\ keep => w.detail # 0
    /\ StoreCommit(w, IF keep THEN w.detail ELSE held,
                   IF keep THEN "event" ELSE from, type)

\* The host calls setViewState with a fragment it has just written down.
HostSetNew(lit, keep) ==
    /\ Listened(setViewState_objects([Begin EXCEPT !.objs = @ \o Shifted(lit, Len(@) + 1)],
                                     Len(store.objs) + 1),
                keep, Len(store.objs) + 1, "built", "set")
    /\ nOps' = nOps + 1
    /\ UNCHANGED <<cvars, svars, rvars, pair, keys, focus, block, label, yvars>>

\* The host calls setViewState with the object it holds.
HostSetHeld(keep) ==
    /\ host.held # 0
    /\ Listened(setViewState_objects(Begin, host.held), keep, host.held, host.from, "set")
    /\ nOps' = nOps + 1
    /\ UNCHANGED <<cvars, svars, rvars, pair, keys, focus, block, label, yvars>>

\* The host calls getViewState and holds the answer.
HostGet ==
    /\ StoreCommit([Begin EXCEPT !.objs = cloneViewState(@, store.view_state)],
                   CloneAddr(store.objs, store.view_state), "get", "get")
    /\ nOps' = nOps + 1
    /\ UNCHANGED <<cvars, svars, rvars, pair, keys, focus, block, label, yvars>>

\* The host writes a primitive field of the object it holds or of one of the
\* objects in it.
HostMutate(a, key) ==
    /\ host.held # 0
    /\ a \in Reach(store.objs, {host.held})
    /\ key \in DOMAIN store.objs[a].f
    /\ StoreCommit([Begin EXCEPT !.objs = SetField(@, a, key,
                                             IF store.objs[a].f[key] = 0 THEN 1 ELSE 0)],
                   host.held, host.from, "mutate")
    /\ nOps' = nOps + 1
    /\ UNCHANGED <<cvars, svars, rvars, pair, keys, focus, block, label, yvars>>

\* #setup_project once the project is loaded and the first render is done:
\* the pending view state is applied.
LoadCompletes(rdy, keep) ==
    /\ ~store.loaded
    /\ Listened(IF store.pending_view_state = 0
                THEN [Begin EXCEPT !.loaded = TRUE, !.ready = rdy]
                ELSE applied_objects(
                        apply_view_state_objects(
                            [Begin EXCEPT !.loaded = TRUE, !.ready = rdy],
                            store.pending_view_state),
                        rdy \/ Complete(store, store.pending_view_state),
                        store.pending_view_state, TRUE),
                keep, host.held, host.from, "loaded")
    /\ UNCHANGED <<nOps, cvars, svars, rvars, pair, keys, focus, block, label, yvars>>

\* The tab header, the board app and its panels are rendered.
PanelsReady ==
    /\ store.loaded /\ ~store.ready
    /\ StoreCommit([Begin EXCEPT !.ready = TRUE], host.held, host.from, "ready")
    /\ UNCHANGED <<nOps, cvars, svars, rvars, pair, keys, focus, block, label, yvars>>

\* The callback of #schedule_view_state_retry applies the pending state.
RetryPending(keep) ==
    /\ store.loaded /\ store.pending_view_state # 0
    /\ Listened(applied_objects(
                    apply_view_state_objects(Begin, store.pending_view_state),
                    Complete(store, store.pending_view_state),
                    store.pending_view_state, TRUE),
                keep, host.held, host.from, "retry")
    /\ UNCHANGED <<nOps, cvars, svars, rvars, pair, keys, focus, block, label, yvars>>


(***************************************************************************)
(* SpecCache: one Project loading four source sets while the clock runs -  *)
(* hits, misses, expiry and eviction.                                      *)
(***************************************************************************)
CacheSources == {S_board, S_sheet, S_other, S_text}

CacheNext ==
    \/ \E s \in CacheSources : nLoads < MaxLoads /\ LoadHit(1, s)
    \/ \E s \in CacheSources :
          nLoads < MaxLoads /\ Len(loads) < MaxInFlight /\ LoadMiss(1, s)
    \/ \E l \in 1..Len(loads) : \E i \in 1..Len(loads[l].tasks) : TaskResolve(l, i)
    \/ \E l \in 1..Len(loads) : LoadSettle(l)
    \/ \E d \in TickSteps : nTicks < MaxTicks /\ Tick(d)

(***************************************************************************)
(* SpecShare: two Projects loading the same source sets - a snapshot       *)
(* written by one instance is restored into the other.                     *)
(***************************************************************************)
ShareSources == {S_board, S_sheet}

ShareNext ==
    \/ \E pj \in Projects, s \in ShareSources : nLoads < MaxShareLoads /\ LoadHit(pj, s)
    \/ \E pj \in Projects, s \in ShareSources :
          nLoads < MaxShareLoads /\ Len(loads) < MaxInFlight /\ LoadMiss(pj, s)
    \/ \E l \in 1..Len(loads) : \E i \in 1..Len(loads[l].tasks) : TaskResolve(l, i)
    \/ \E l \in 1..Len(loads) : LoadSettle(l)
    \/ \E pj \in Projects : nDisposes < MaxDisposes /\ Dispose(pj)
    \/ \E d \in TickSteps : nTicks < MaxShareTicks /\ Tick(d)

(***************************************************************************)
(* SpecFiles: one Project whose file loads can fail and which its owner    *)
(* can dispose while they are in flight.                                   *)
(***************************************************************************)
FileSources == {S_mixed, S_bad, S_cjk}

FilesNext ==
    \/ \E s \in FileSources : nLoads < MaxFileLoads /\ LoadHit(1, s)
    \/ \E s \in FileSources : nLoads < MaxFileLoads /\ LoadMiss(1, s)
    \/ \E l \in 1..Len(loads) : \E i \in 1..Len(loads[l].tasks) : TaskResolve(l, i)
    \/ \E l \in 1..Len(loads) : \E i \in 1..Len(loads[l].tasks) : TaskFail(l, i)
    \/ \E l \in 1..Len(loads) : LoadReject(l)
    \/ \E l \in 1..Len(loads) : LoadSettle(l)
    \/ \E l \in 1..Len(loads) : GlyphImport(l)
    \/ \E l \in 1..Len(loads) : GlyphDone(l)
    \/ nDisposes < MaxDisposes /\ Dispose(1)

(***************************************************************************)
(* SpecRoute: one Project loads source sets of one or two files, given as  *)
(* URLs or as blobs, whose names end in the suffixes of KiCad in lower or  *)
(* in other letter case, or in another suffix.                             *)
(***************************************************************************)
RouteNames == {F_board, F_child, F_pro, F_notes, F_BOARD, F_Leaf, F_PRO}

RouteSources ==
    {[urls |-> <<f>>, blobs |-> <<>>] : f \in RouteNames}
    \cup {[urls |-> <<>>, blobs |-> <<Blob(f, ServerContent(f))>>] : f \in RouteNames}
    \cup {[urls |-> <<f>>, blobs |-> <<Blob(g, ServerContent(g))>>] :
             f \in {F_board, F_BOARD}, g \in {F_child, F_Leaf, F_PRO}}

RouteNext ==
    \/ \E s \in RouteSources : nLoads < MaxRouteLoads /\ LoadHit(1, s)
    \/ \E s \in RouteSources : nLoads < MaxRouteLoads /\ LoadMiss(1, s)
    \/ \E l \in 1..Len(loads) : \E i \in 1..Len(loads[l].tasks) : TaskResolve(l, i)
    \/ \E l \in 1..Len(loads) : LoadSettle(l)

(***************************************************************************)
(* SpecSnap: two Projects load a leaf schematic, the schematics that       *)
(* contain it and a board, one load after the other into Projects that     *)
(* hold what earlier loads and restores left, with dispose in between.     *)
(***************************************************************************)
S_leaf == [urls |-> <<F_child>>, blobs |-> <<>>]

SnapSources == {S_leaf, S_sheet, S_board}

SnapNext ==
    \/ \E pj \in Projects, s \in SnapSources : nLoads < MaxSnapLoads /\ LoadHit(pj, s)
    \/ \E pj \in Projects, s \in SnapSources :
          nLoads < MaxSnapLoads /\ Len(loads) < MaxInFlight /\ LoadMiss(pj, s)
    \/ \E l \in 1..Len(loads) : \E i \in 1..Len(loads[l].tasks) : TaskResolve(l, i)
    \/ \E l \in 1..Len(loads) : LoadSettle(l)
    \/ \E pj \in Projects : nDisposes < MaxDisposes /\ Dispose(pj)

(***************************************************************************)
(* SpecPages: one Project loads a root schematic and the sheet it contains, *)
(* whose instance declares one page number or another, or the sheet alone.  *)
(***************************************************************************)
PageSources ==
    {[urls |-> <<>>, blobs |-> <<Blob(F_root, c), Blob(F_child, C_child)>>] :
        c \in RootContents}
    \cup {[urls |-> <<F_child>>, blobs |-> <<Blob(F_root, c)>>] : c \in RootContents}
    \cup {S_leaf}

PagesNext ==
    \/ \E s \in PageSources : nLoads < MaxPageLoads /\ LoadHit(1, s)
    \/ \E s \in PageSources :
          nLoads < MaxPageLoads /\ Len(loads) < MaxInFlight /\ LoadMiss(1, s)
    \/ \E l \in 1..Len(loads) : \E i \in 1..Len(loads[l].tasks) : TaskResolve(l, i)
    \/ \E l \in 1..Len(loads) : LoadSettle(l)
    \/ nDisposes < MaxDisposes /\ Dispose(1)

(***************************************************************************)
(* SpecTwice: one Project is asked for the same file more than once at a   *)
(* time: twice in the URLs of one load, as a URL and as a blob, and by two  *)
(* loads that await their files together.                                  *)
(***************************************************************************)
TwiceSources ==
    { S_board,
      [urls |-> <<F_board, F_board>>, blobs |-> <<>>],
      [urls |-> <<F_child>>, blobs |-> <<Blob(F_child, C_child)>>] }

TwiceNext ==
    \/ \E s \in TwiceSources : nLoads < MaxTwiceLoads /\ LoadHit(1, s)
    \/ \E s \in TwiceSources :
          nLoads < MaxTwiceLoads /\ Len(loads) < MaxTwiceInFlight /\ LoadMiss(1, s)
    \/ \E l \in 1..Len(loads) : \E i \in 1..Len(loads[l].tasks) : TaskResolve(l, i)
    \/ \E l \in 1..Len(loads) : LoadSettle(l)
    \/ nDisposes < MaxDisposes /\ Dispose(1)

(***************************************************************************)
(* SpecShell: one viewer, the page's load configuration, the host's load   *)
(* requests and collapse changes, and the viewer's suspended calls.        *)
(***************************************************************************)
CollapsedStates == {ViewState(TRUE, c, FALSE, 0) : c \in BOOLEAN}

ShellNext ==
    \/ \E a \in BOOLEAN : Mount(a)
    \/ nRequests < MaxRequests /\ HostLoadSrc
    \/ nRequests < MaxRequests /\ HostLoadZip
    \/ nRequests < MaxRequests /\ HostLoadZipUrl
    \/ nToggles < MaxToggles /\ ToggleCollapsed
    \/ \E state \in CollapsedStates : nReplays < MaxRestores /\ SetViewState(state)
    \/ \E i \in 1..Len(threads) : ZipFetchDone(i)
    \/ \E i \in 1..Len(threads) : ZipFetchFail(i)
    \/ \E i \in 1..Len(threads) : UnzipDone(i)
    \/ \E i \in 1..Len(threads) : ProjectLoadDone(i)
    \/ \E i \in 1..Len(threads) : ProjectLoadFail(i)
    \/ \E i \in 1..Len(threads) : UpdateDone(i, TRUE)

(***************************************************************************)
(* SpecReplay: one viewer that loads its DOM sources, a host that replays  *)
(* saved view states into it, and a user who picks and drops nets.         *)
(***************************************************************************)
Nets == {1, 2}

ReplayStates ==
    {ViewState(hc, c, hn, n) : hc \in BOOLEAN, c \in BOOLEAN, hn \in BOOLEAN,
                               n \in {0} \cup Nets}
      \ {ViewState(FALSE, c, FALSE, n) : c \in BOOLEAN, n \in {0} \cup Nets}

ReplayNext ==
    \/ Mount(TRUE)
    \/ \E i \in 1..Len(threads) : ProjectLoadDone(i)
    \/ \E i \in 1..Len(threads), ready \in BOOLEAN : UpdateDone(i, ready)
    \/ BoardViewerReady
    \/ NetsPanelReady
    \/ \E state \in ReplayStates : nReplays < MaxReplays /\ SetViewState(state)
    \/ RetryViewState
    \/ \E net \in Nets : nPicks < MaxPicks /\ UserPickNet(net)
    \/ UserClickBlank
    \/ nToggles < MaxToggles /\ ToggleCollapsed

(***************************************************************************)
(* SpecLayers: a loaded board whose user shows and hides layers, picks and *)
(* drops nets, and whose host replays view states into it.                 *)
(***************************************************************************)
\* The viewer once its board is loaded and its panels are rendered.
LoadedViewer ==
    [NewViewer(FALSE, FALSE) EXCEPT !.mounted = TRUE, !.loaded = TRUE,
                                    !.board_app = TRUE, !.board_viewer = TRUE,
                                    !.listeners = TRUE, !.nets_panel = TRUE]

LayerMaps == UNION {[S -> BOOLEAN] : S \in SUBSET UILayers}

\* The fragments replayed: a net (-1: no pcb.nets), some layers and an
\* opacity of the tracks (-1: no pcb.objects).
LayerStates ==
    {WithPcb(ViewState(FALSE, FALSE, n # -1, IF n = -1 THEN 0 ELSE n),
             m, t # -1, IF t = -1 THEN 0 ELSE t) :
        n \in {-1, 0} \cup Nets, m \in LayerMaps, t \in {-1} \cup Opacities}
      \ {NoViewState}

\* What a step leaves for the properties: the operation, the fragment it
\* applied, the visibility the layers had before the first of the
\* highlight_net calls it belongs to (no map when it belongs to none),
\* whether a net focus was active before it, and the net-focus-change
\* events it dispatched.
FocusNote(op, fragment, base, active, cleared) ==
    [op |-> op, fragment |-> fragment, base |-> base, active |-> active,
     cleared |-> cleared]

FocusIdle == focus = FocusNote("none", NoViewState, NoLayers, FALSE, 0)

LayersStart ==
    /\ viewer = LoadedViewer
    /\ window = Window(FALSE, FALSE, FALSE, FALSE, FALSE, 1, TRUE)
    /\ threads = <<>>
    /\ nRequests = 0
    /\ nToggles = 0
    /\ nReplays = 0
    /\ nPicks = 0
    /\ notes = <<>>
    /\ sev = NoShellEvent

LayersCommit(op, fragment, base, st) ==
    /\ Commit(IF op = "apply" THEN "replay" ELSE "ui", st)
    /\ focus' = FocusNote(op, fragment, base, viewer.should_restore_visibility,
                          st.cleared)
    /\ UNCHANGED <<window, nRequests, nToggles, nReplays, nPicks>>
    /\ UNCHANGED <<cvars, pair, keys, store, host, nOps, block, label, yvars>>

\* The host replays a view state.
LayersApply(state) ==
    /\ viewer.loaded
    /\ LayersCommit("apply", state, NoLayers,
                    setViewState(Work(viewer, threads, "replay"), state))

\* The user double-clicks an item of a net: on_dblclick calls highlight_net.
LayersHighlight(net) ==
    /\ viewer.board_viewer /\ ~viewer.is_viewer_collapsed
    /\ LayersCommit("highlight", NoViewState,
                    IF focus.op = "highlight" THEN focus.base
                    ELSE IF viewer.should_restore_visibility THEN NoLayers
                    ELSE viewer.layer_visible,
                    highlight_net(Work(viewer, threads, "ui"), net))

\* The host drops the net focus.
LayersClear ==
    /\ viewer.board_viewer
    /\ LayersCommit("clear", NoViewState,
                    IF focus.op = "highlight" THEN focus.base ELSE NoLayers,
                    clear_net_focus(Work(viewer, threads, "ui")))

\* The user clicks an empty spot of the board.
LayersClick ==
    /\ viewer.board_viewer /\ ~viewer.is_viewer_collapsed
    /\ LayersCommit("click", NoViewState, NoLayers,
                    on_document_clicked(Work(viewer, threads, "ui")))

\* The user shows or hides a layer in the layers panel, which reports its
\* map with "ecad-viewer:board-layer-visibility-change"; the listener of
\* #setup_events merges it and passes it on.
on_layer_visibility_change(st, layers) ==
    emit_view_state_change(
        [st EXCEPT !.v = merge_view_state(@, WithPcb(NoViewState, layers, FALSE, 0))],
        "user")

LayersToggle(l) ==
    LET v1 == setVisibilities(viewer, [k \in {l} |-> ~viewer.visibilities[l]])
    IN
    /\ viewer.board_viewer /\ ~viewer.is_viewer_collapsed
    /\ LayersCommit("toggle", NoViewState, NoLayers,
                    on_layer_visibility_change(Work(v1, threads, "ui"),
                                               v1.visibilities))

LayersNext ==
    \/ \E state \in LayerStates : LayersApply(state)
    \/ \E net \in Nets : LayersHighlight(net)
    \/ LayersClear
    \/ LayersClick
    \/ \E l \in UILayers : LayersToggle(l)

(***************************************************************************)
(* SpecFull: the viewer of SpecShell whose user also takes it to the full  *)
(* page and back, and whose host folds and unfolds it.                     *)
(***************************************************************************)
\* #enter_page_fullscreen and #exit_page_fullscreen, as far as the viewer
\* itself goes.
enter_page_fullscreen(v) == [v EXCEPT !.is_full_screen = TRUE]

exit_page_fullscreen(v) == [v EXCEPT !.is_full_screen = FALSE]

\* The user clicks the full-screen button of a viewer that is not a clone:
\* on_full_windows.  The button of a clone ends the clone.
OnFullWindows ==
    /\ viewer.mounted /\ ~viewer.fullscreen_original
    /\ Commit("fullscreen",
              Work(IF viewer.is_full_screen THEN exit_page_fullscreen(viewer)
                   ELSE enter_page_fullscreen(viewer),
                   threads, "ui"))
    /\ UNCHANGED <<window, nRequests, nToggles, nReplays, nPicks>>
    /\ UNCHANGED <<cvars, xvars>>

\* The host folds or unfolds the viewer: setViewerCollapsed(collapsed).
HostSetCollapsed(collapsed) ==
    /\ Commit("collapse",
              setViewerCollapsed(Work(viewer, threads, "host"), collapsed, "user"))
    /\ nToggles' = nToggles + 1
    /\ UNCHANGED <<window, nRequests, nReplays, nPicks>>
    /\ UNCHANGED <<cvars, xvars>>

FullNext ==
    \/ ShellNext
    \/ OnFullWindows
    \/ \E c \in BOOLEAN : nToggles < MaxToggles /\ HostSetCollapsed(c)

(***************************************************************************)
(* SpecHost: the editor block that holds the viewer.  refreshNativeViewer  *)
(* has created the viewer, appended it and put its listener on            *)
(* "ecad-viewer:view-state-change"; it still has to align the collapsed    *)
(* flag and to replay the saved view state, while the user already works   *)
(* with the viewer.                                                        *)
(***************************************************************************)
\* The block: data.viewState, allowPersistViewState, how far
\* refreshNativeViewer is, the class is-collapsed of the mount element,
\* whether its one source is an archive, and for the properties what the
\* listener wrote and how often it called dispatchEditorChange in the last
\* step, how many times fetchRangePrefix was called, whether the saved
\* state said collapsed when the block was opened and whether the user has
\* unfolded the viewer since.
Block(viewState, allow, phase, mountCollapsed) ==
    [viewState |-> viewState, allowPersistViewState |-> allow, phase |-> phase,
     is_collapsed |-> mountCollapsed, written |-> <<>>, changes |-> 0,
     zipOnly |-> FALSE, probes |-> 0, openedCollapsed |-> FALSE,
     userExpanded |-> FALSE]

BlockIdle == block = Block(NoViewState, FALSE, "none", FALSE)

\* The end of the listener: the block keeps the view state and tells the
\* editor that it changed.
persist(b, next) ==
    [b EXCEPT !.viewState = next, !.written = Append(@, next), !.changes = @ + 1]

\* A listener that waits for the end of the initial restore whatever the
\* origin is.
on_view_state_change_Waiting(b, note) ==
    IF note.origin = "restore" \/ ~b.allowPersistViewState
    THEN [b EXCEPT !.is_collapsed = note.viewState.collapsed]
    ELSE persist([b EXCEPT !.is_collapsed = note.viewState.collapsed], note.viewState)

\* The listener refreshNativeViewer puts on "ecad-viewer:view-state-change".
on_view_state_change(b, note) ==
    IF note.origin = "restore"
    THEN [b EXCEPT !.is_collapsed = note.viewState.collapsed]
    ELSE IF note.origin # "user" /\ ~b.allowPersistViewState
    THEN [b EXCEPT !.is_collapsed = note.viewState.collapsed]
    ELSE persist([b EXCEPT !.is_collapsed = note.viewState.collapsed], note.viewState)

\* The listener called for every event of a step, in their order.
RECURSIVE Heard(_, _)
Heard(b, events) ==
    IF events = <<>> THEN b
    ELSE Heard(on_view_state_change(b, Head(events)), Tail(events))

\* The view states a block may have saved.
SavedStates ==
    {ViewState(hc, c, hn, n) : hc \in BOOLEAN, c \in BOOLEAN, hn \in BOOLEAN,
                               n \in {0} \cup Nets}

HostStart ==
    /\ viewer = NewViewer(FALSE, FALSE)
    /\ threads = <<>>
    /\ nRequests = 0
    /\ nToggles = 0
    /\ nReplays = 0
    /\ nPicks = 0
    /\ notes = <<>>
    /\ sev = NoShellEvent
    /\ \E saved \in SavedStates, zipOnly \in BOOLEAN :
          /\ saved.hasCollapsed \/ ~saved.collapsed
          /\ saved.hasNet \/ saved.net = 0
          /\ window = Window(FALSE, FALSE, FALSE, FALSE, FALSE,
                             IF zipOnly THEN 0 ELSE 1, TRUE)
          /\ block = [Block(saved, FALSE, "new", FALSE)
                        EXCEPT !.zipOnly = zipOnly,
                               !.openedCollapsed = saved.collapsed]

HostCommit(type, st, b) ==
    /\ Commit(type, st)
    /\ block' = [Heard([block EXCEPT !.written = <<>>, !.changes = 0], st.notes)
                   EXCEPT !.phase = b.phase,
                          !.allowPersistViewState = b.allowPersistViewState,
                          !.probes = b.probes,
                          !.userExpanded = b.userExpanded]
    /\ UNCHANGED <<window, nRequests, nToggles, nReplays, nPicks>>
    /\ UNCHANGED <<cvars, pair, keys, store, host, nOps, focus, label, yvars>>

\* refreshNativeViewer before the viewer is in the document: the collapsed
\* flag of the saved state and then the whole saved state are handed to the
\* new viewer.
early_restore(st, state) ==
    IF state = NoViewState THEN st
    ELSE setViewState(IF state.hasCollapsed
                      THEN setViewerCollapsed(st, state.collapsed, "restore")
                      ELSE st,
                      state)

\* refreshNativeViewer makes the viewer with auto-load="false", restores
\* early, appends the viewer to the mount element and only then listens to
\* its view state changes.
HostOpen ==
    /\ block.phase = "new"
    /\ Commit("mount",
              [early_restore(Work(viewer, threads, "replay"), block.viewState)
                 EXCEPT !.v.mounted = TRUE])
    /\ block' = [block EXCEPT !.phase = "created"]
    /\ UNCHANGED <<window, nRequests, nToggles, nReplays, nPicks>>
    /\ UNCHANGED <<cvars, pair, keys, store, host, nOps, focus, label, yvars>>

\* The request refreshNativeViewer makes of the viewer: the archive when
\* the one source is an archive, the source children otherwise.
host_load(st, zipOnly) ==
    IF zipOnly
    THEN load_window_zip_url(st, "url", "load_window_zip_url", "none")
    ELSE load_src(st, "load_src")

\* refreshNativeViewer once the collapsed flag is aligned, for a viewer that
\* is not folded although the saved state says so: it is folded, and a
\* folded viewer is asked to load, which it puts off.
align_collapsed_load(st, zipOnly) ==
    IF st.v.is_viewer_collapsed THEN host_load(st, zipOnly) ELSE st

align_collapsed(st, zipOnly) ==
    align_collapsed_load(
        IF ~st.v.is_viewer_collapsed THEN setViewerCollapsed(st, TRUE, "restore")
        ELSE st,
        zipOnly)

\* A refreshNativeViewer that probes the first source whether the viewer is
\* folded or not.
HostAligned_Probing(st) ==
    HostCommit("replay", st, [block EXCEPT !.phase = "probing", !.probes = @ + 1])

\* refreshNativeViewer after the first render: the collapsed flag of the
\* saved state is applied once more; with a folded viewer that is the end
\* of it, and the listener may persist from then on; otherwise the first
\* source is probed with fetchRangePrefix.
HostAligned(st) ==
    IF st.v.is_viewer_collapsed \/ block.viewState.collapsed
    THEN HostCommit("replay", align_collapsed(st, block.zipOnly),
                    [block EXCEPT !.phase = "done", !.allowPersistViewState = TRUE])
    ELSE HostCommit("replay", st,
                    [block EXCEPT !.phase = "probing", !.probes = @ + 1])

HostAlignCollapsed ==
    /\ block.phase = "created"
    /\ HostAligned(IF block.viewState.hasCollapsed
                   THEN setViewerCollapsed(Work(viewer, threads, "replay"),
                                           block.viewState.collapsed, "restore")
                   ELSE Work(viewer, threads, "replay"))

\* fetchRangePrefix answers: a source that cannot be read ends
\* refreshNativeViewer, any other is requested of the viewer.
HostProbed(ok) ==
    /\ block.phase = "probing"
    /\ IF ok
       THEN HostCommit("request",
                       host_load(Work(viewer, threads, "host"), block.zipOnly),
                       [block EXCEPT !.phase = "loading"])
       ELSE HostCommit("failed", Work(viewer, threads, "host"),
                       [block EXCEPT !.phase = "failed"])

\* refreshNativeViewer at its end, once the request it made of the viewer
\* has returned: the saved view state is replayed with
\* allowPersistViewState off, which is on from then on.
HostRestore ==
    /\ block.phase = "loading"
    /\ threads = <<>>
    /\ HostCommit("replay",
                  IF block.viewState # NoViewState
                  THEN setViewState(Work(viewer, threads, "replay"), block.viewState)
                  ELSE Work(viewer, threads, "replay"),
                  [block EXCEPT !.phase = "done", !.allowPersistViewState = TRUE])

\* The user folds or unfolds the viewer: toggleViewerCollapsed.
HostUserToggle ==
    /\ block.phase \notin {"none", "new"}
    /\ HostCommit("ui",
                  setViewerCollapsed(Work(viewer, threads, "ui"),
                                     ~viewer.is_viewer_collapsed, "user"),
                  [block EXCEPT !.userExpanded = @ \/ viewer.is_viewer_collapsed])

\* The user picks a net in the nets panel.
HostUserPick(net) ==
    /\ block.phase \notin {"none", "new"}
    /\ viewer.nets_panel /\ ~viewer.is_viewer_collapsed
    /\ HostCommit("ui",
                  emit_view_state_change(
                    [focus_net(Work([viewer EXCEPT !.menu_selected = net],
                                    threads, "ui"), net)
                       EXCEPT !.v = merge_view_state(@, ViewState(FALSE, FALSE, TRUE, net))],
                    "user"),
                  block)

\* The user clicks an empty spot of the board.
HostUserClick ==
    /\ block.phase \notin {"none", "new"}
    /\ viewer.board_viewer /\ ~viewer.is_viewer_collapsed
    /\ HostCommit("ui", on_document_clicked(Work(viewer, threads, "ui")), block)

\* The viewer goes on with a load while the block listens: the steps of
\* ZipFetchDone, UnzipDone, ProjectLoadDone, UpdateDone, BoardViewerReady,
\* NetsPanelReady and RetryViewState.
HostZipFetchDone(i) ==
    /\ threads[i].pc = "zu_fetch"
    /\ HostCommit("fetched",
                  [load_zip(Work(viewer, DropThread(threads, i), "host"),
                            threads[i].what, threads[i].entry, threads[i].cont)
                      EXCEPT !.proceeded = ~viewer.is_viewer_collapsed],
                  block)

HostUnzipDone(i) ==
    /\ threads[i].pc = "lz_unzip"
    /\ HostCommit("continue",
                  setup_project(Work(viewer, DropThread(threads, i), "host"),
                                threads[i].what, threads[i].entry, threads[i].cont,
                                TRUE, 0),
                  block)

HostProjectLoadDone(i) ==
    /\ threads[i].pc = "sp_load"
    /\ HostCommit("continue",
                  Work([viewer EXCEPT !.loaded = TRUE],
                       [threads EXCEPT ![i].pc = "sp_update"], "host"),
                  block)

HostUpdateDone(i, ready) ==
    /\ threads[i].pc = "sp_update"
    /\ HostCommit("continue", setup_project_updated(i, ready), block)

HostPanelReady ==
    /\ viewer.board_app /\ ~(viewer.board_viewer /\ viewer.nets_panel)
    /\ HostCommit("none",
                  Work(IF ~viewer.board_viewer
                       THEN [viewer EXCEPT !.board_viewer = TRUE]
                       ELSE [viewer EXCEPT !.nets_panel = TRUE],
                       threads, "host"),
                  block)

HostRetryViewState ==
    /\ viewer.view_state_retry_scheduled
    /\ HostCommit("replay",
                  IF ~viewer.loaded \/ viewer.pending_view_state = NoViewState
                  THEN Work([viewer EXCEPT !.view_state_retry_scheduled = FALSE],
                            threads, "replay")
                  ELSE after_apply(apply_view_state(
                         Work([viewer EXCEPT !.view_state_retry_scheduled = FALSE],
                              threads, "replay"),
                         viewer.pending_view_state)),
                  block)

HostNext ==
    \/ HostOpen
    \/ HostAlignCollapsed
    \/ \E ok \in BOOLEAN : HostProbed(ok)
    \/ HostRestore
    \/ HostUserToggle
    \/ \E net \in Nets : HostUserPick(net)
    \/ HostUserClick
    \/ \E i \in 1..Len(threads) : HostZipFetchDone(i)
    \/ \E i \in 1..Len(threads) : HostUnzipDone(i)
    \/ \E i \in 1..Len(threads) : HostProjectLoadDone(i)
    \/ \E i \in 1..Len(threads), ready \in BOOLEAN : HostUpdateDone(i, ready)
    \/ HostPanelReady
    \/ HostRetryViewState

(***************************************************************************)
(* SpecLabel: the text painted for a net name on a pad, along a track and  *)
(* on a via.  A name is a sequence of pieces: "/" or a run of other        *)
(* characters; it is the name unescape_string returned.                    *)
(***************************************************************************)
\* String.prototype.toLowerCase on the suffixes and pieces used here.
LowerCase(str) ==
    CASE str = ".KICAD_PCB"  -> ".kicad_pcb"
      [] str = ".Kicad_Sch"  -> ".kicad_sch"
      [] str = ".KICAD_PRO"  -> ".kicad_pro"
      [] str = "UNCONNECTED" -> "unconnected"
      [] str = "Unconnected" -> "unconnected"
      [] OTHER               -> str

Pieces == {"/", "aaa", "bbb", "unconnected", "Unconnected"}

NetNames == UNION {[1..n -> Pieces] : n \in 0..MaxNameLen}

\* String.prototype.lastIndexOf("/"), 0 when there is none.
RECURSIVE lastIndexOf(_, _)
lastIndexOf(name, from) ==
    IF from = 0 THEN 0
    ELSE IF name[from] = "/" THEN from
    ELSE lastIndexOf(name, from - 1)

\* A strip_net_path that cuts at the first "/".
strip_net_path_First(name) ==
    IF \E i \in 1..Len(name) : name[i] = "/"
    THEN SubSeq(name, (CHOOSE i \in 1..Len(name) :
                          name[i] = "/" /\ \A j \in 1..(i - 1) : name[j] # "/") + 1,
                Len(name))
    ELSE name

strip_net_path(name) ==
    IF lastIndexOf(name, Len(name)) >= 1
    THEN SubSeq(name, lastIndexOf(name, Len(name)) + 1, Len(name))
    ELSE name

normalize_unconnected_netname(name) ==
    IF name = <<>> THEN name
    ELSE IF LowerCase(name[1]) = "unconnected" THEN <<"x">>
    ELSE name

\* What is painted: nothing yet, nothing at all (the text is empty), or a text.
Unpainted == [drawn |-> FALSE, text |-> <<>>]

Painted(text) == [drawn |-> text # <<>>, text |-> text]

LabelIdle == label = [name |-> <<>>, pad |-> Unpainted, track |-> Unpainted,
                      via |-> Unpainted, done |-> {}]

LabelStart ==
    \E name \in NetNames :
        label = [name |-> name, pad |-> Unpainted, track |-> Unpainted,
                 via |-> Unpainted, done |-> {}]

DynIdle == dyn = <<>>

FpIdle == fp = <<>>

ModsIdle == mods = <<>>

YIdle == DynIdle /\ FpIdle /\ ModsIdle

\* BoardPainter paints the net name of a pad.
PaintPadNetname ==
    /\ "pad" \notin label.done
    /\ label' = [label EXCEPT
                    !.pad = Painted(normalize_unconnected_netname(strip_net_path(label.name))),
                    !.done = @ \cup {"pad"}]
    /\ UNCHANGED <<cvars, svars, rvars, pair, keys, store, host, nOps, focus, block, yvars>>

\* BoardViewer paints the net name along a track segment.
PaintTrackNetname ==
    /\ "track" \notin label.done
    /\ label' = [label EXCEPT
                    !.track = Painted(normalize_unconnected_netname(strip_net_path(label.name))),
                    !.done = @ \cup {"track"}]
    /\ UNCHANGED <<cvars, svars, rvars, pair, keys, store, host, nOps, focus, block, yvars>>

\* BoardViewer paints the net name on a via.
PaintViaNetname ==
    /\ "via" \notin label.done
    /\ label' = [label EXCEPT
                    !.via = Painted(normalize_unconnected_netname(strip_net_path(label.name))),
                    !.done = @ \cup {"via"}]
    /\ UNCHANGED <<cvars, svars, rvars, pair, keys, store, host, nOps, focus, block, yvars>>

LabelNext == PaintPadNetname \/ PaintTrackNetname \/ PaintViaNetname

(***************************************************************************)
(* SpecTracks, SpecVias: a board viewer with three copper layers draws.    *)
(* Its user zooms, shows and hides copper layers, switches the net names   *)
(* of tracks and vias on and off and highlights a copper layer; every      *)
(* draw runs #update_dynamic_track_net_labels and then the draw of the     *)
(* base viewer.  Lengths are in millimetres; the segments are horizontal   *)
(* and lie, as the vias do, at the height of the middle of the viewport.   *)
(***************************************************************************)
\* LayerSet.copper_layers(), in their order.
CopperOrder == <<"F.Cu", "In1.Cu", "B.Cu">>

CopperNames == {CopperOrder[i] : i \in 1..Len(CopperOrder)}

track_netlabel_threshold_mm == 4

via_netlabel_threshold_mm == 10

Zooms == {1, 2, 4}

\* this.viewport.camera.bbox
ViewportBox == [x |-> 0, w |-> 10]

\* A LineSegment of board.segments; a malformed one has no start point.
Segment(layer, net, width, start, len, malformed) ==
    [layer |-> layer, net |-> net, width |-> width, start |-> start,
     len |-> len, malformed |-> malformed]

\* A Via of board.vias; a malformed one has no position.
Via(type, layers, net, size, at, malformed) ==
    [type |-> type, layers |-> layers, net |-> net, size |-> size, at |-> at,
     malformed |-> malformed]

\* board.getNetName, unescaped: the names hold no escape sequence.
getNetName(net) ==
    CASE net = 1 -> <<"aaa">>
      [] net = 2 -> <<"aaa", "/", "bbb">>
      [] net = 3 -> <<"Unconnected">>
      [] OTHER   -> <<>>

PieceLen(piece) ==
    CASE piece \in {"/", "x"}     -> 1
      [] piece \in {"aaa", "bbb"} -> 3
      [] OTHER                    -> 11

\* char_count: Array.from(s).length
RECURSIVE char_count(_)
char_count(name) ==
    IF name = <<>> THEN 0 ELSE PieceLen(Head(name)) + char_count(Tail(name))

display_netname(net) ==
    normalize_unconnected_netname(strip_net_path(getNetName(net)))

\* Math.round(len / size) of two positive numbers
RoundDiv(len, size) == (2 * len + size) \div (2 * size)

\* num_names of a horizontal segment
num_names(seg) ==
    IF RoundDiv(seg.len, ViewportBox.w) > 1 THEN RoundDiv(seg.len, ViewportBox.w) ELSE 1

\* viewport.contains_point(seg.start.add(segV.multiply(ii / divisions)))
label_point_inside(seg, ii, divisions) ==
    /\ seg.start * divisions + seg.len * ii >= ViewportBox.x * divisions
    /\ seg.start * divisions + seg.len * ii <= (ViewportBox.x + ViewportBox.w) * divisions

\* The tests of the loop over the segments of one copper layer, up to the
\* one on the name: the net, the zoom, the name to show.
segment_named(d, seg) ==
    /\ ~(seg.net <= 0)
    /\ ~(d.zoom * seg.width < track_netlabel_threshold_mm)
    /\ display_netname(seg.net) # <<>>
    /\ char_count(display_netname(seg.net)) # 0

\* A loop body that draws the name whatever the length of the segment.
segment_labels_AnyLength(d, k) ==
    IF ~segment_named(d, d.segs[k]) THEN {}
    ELSE {<<k, ii>> : ii \in {j \in 1..num_names(d.segs[k]) :
                                 label_point_inside(d.segs[k], j,
                                                    num_names(d.segs[k]) + 1)}}

\* The body of the loop over the segments for segment k: the labels drawn
\* for it, each the segment and the division point.
segment_labels(d, k) ==
    IF ~segment_named(d, d.segs[k]) THEN {}
    ELSE IF d.segs[k].len * d.segs[k].len
             < (d.segs[k].width * char_count(display_netname(d.segs[k].net)))
               * (d.segs[k].width * char_count(display_netname(d.segs[k].net)))
    THEN {}
    ELSE {<<k, ii>> : ii \in {j \in 1..num_names(d.segs[k]) :
                                 label_point_inside(d.segs[k], j,
                                                    num_names(d.segs[k]) + 1)}}

\* seg.end.x - seg.start.x of a segment without start point throws.
segment_throws(d, k) == d.segs[k].malformed /\ segment_named(d, d.segs[k])

\* seg_by_layer.get(cu_layer.name), as positions in board.segments
SegsOn(d, cu) ==
    SelectSeq([k \in 1..Len(d.segs) |-> k], LAMBDA k : d.segs[k].layer = cu)

\* The first of the items that throws, 0 when none does.
FirstThrow(n, Throws(_)) ==
    IF \E i \in 1..n : Throws(i)
    THEN CHOOSE i \in 1..n : Throws(i) /\ \A j \in 1..(i - 1) : ~Throws(j)
    ELSE 0

\* The labels drawn for the items before the one that throws.
DrawnBefore(ft, n, Labels(_)) ==
    UNION {Labels(i) : i \in 1..(IF ft = 0 THEN n ELSE ft - 1)}

\* What the pass did so far: the graphics of the label layers, whether an
\* exception was thrown and left the function, and the labels draw_text drew.
PassResult(track_labels, via_labels, threw, drawn, drawn_vias) ==
    [track_labels |-> track_labels, via_labels |-> via_labels, threw |-> threw,
     escaped |-> threw, drawn |-> drawn, drawn_vias |-> drawn_vias]

\* One label layer is cleared and drawn again: its graphics are assigned
\* after the last segment, and not at all when a segment throws.
label_layer_rebuilt(acc, cu, ft, drawn) ==
    [acc EXCEPT !.track_labels[cu] = IF ft # 0 THEN {} ELSE drawn,
                !.threw = ft # 0,
                !.escaped = ft # 0,
                !.drawn = @ \cup drawn]

\* The loop over st.copper_layers().
RECURSIVE track_loop(_, _, _, _)
track_loop(d, hc, i, acc) ==
    IF i > Len(CopperOrder) \/ acc.threw THEN acc
    ELSE IF hc # "" /\ CopperOrder[i] # hc THEN track_loop(d, hc, i + 1, acc)
    ELSE IF d.opacity.tracks = 0 THEN track_loop(d, hc, i + 1, acc)
    ELSE IF ~d.visible[CopperOrder[i]] THEN track_loop(d, hc, i + 1, acc)
    ELSE track_loop(d, hc, i + 1,
           label_layer_rebuilt(
               acc, CopperOrder[i],
               FirstThrow(Len(SegsOn(d, CopperOrder[i])),
                          LAMBDA j : segment_throws(d, SegsOn(d, CopperOrder[i])[j])),
               DrawnBefore(FirstThrow(Len(SegsOn(d, CopperOrder[i])),
                                      LAMBDA j : segment_throws(d, SegsOn(d, CopperOrder[i])[j])),
                           Len(SegsOn(d, CopperOrder[i])),
                           LAMBDA j : segment_labels(d, SegsOn(d, CopperOrder[i])[j]))))

\* Array.indexOf in the names of copper_layers(), 0 for -1.
CopperIndex(name) ==
    IF name \in CopperNames THEN CHOOSE i \in 1..Len(CopperOrder) : CopperOrder[i] = name
    ELSE 0

via_crosses_primary_layer(via, primary) ==
    IF via.type = "through-hole" THEN TRUE
    ELSE IF primary = via.layers[1] \/ primary = via.layers[2] THEN TRUE
    ELSE IF CopperIndex(via.layers[1]) = 0 \/ CopperIndex(via.layers[2]) = 0
            \/ CopperIndex(primary) = 0
    THEN FALSE
    ELSE \/ /\ CopperIndex(primary) >= CopperIndex(via.layers[1])
            /\ CopperIndex(primary) <= CopperIndex(via.layers[2])
         \/ /\ CopperIndex(primary) >= CopperIndex(via.layers[2])
            /\ CopperIndex(primary) <= CopperIndex(via.layers[1])

\* The tests of the loop over the vias, up to the one on the name.
via_named(d, hc, via) ==
    /\ ~(via.net <= 0)
    /\ ~(hc # "" /\ ~via_crosses_primary_layer(via, hc))
    /\ \E i \in 1..Len(via.layers) : d.visibilities[via.layers[i]]
    /\ display_netname(via.net) # <<>>

\* The body of the loop over the vias for via k.
via_labels(d, hc, k) ==
    IF /\ via_named(d, hc, d.vias[k])
       /\ d.vias[k].at >= ViewportBox.x
       /\ d.vias[k].at <= ViewportBox.x + ViewportBox.w
       /\ ~(d.zoom * d.vias[k].size < via_netlabel_threshold_mm)
    THEN {k}
    ELSE {}

\* via.at.position of a via without position throws.
via_throws(d, hc, k) == d.vias[k].malformed /\ via_named(d, hc, d.vias[k])

via_layer_rebuilt(acc, ft, drawn) ==
    [acc EXCEPT !.via_labels = IF ft # 0 THEN {} ELSE drawn,
                !.threw = ft # 0,
                !.escaped = ft # 0,
                !.drawn_vias = drawn]

\* The block of the vias.
via_loop(d, hc, acc) ==
    IF acc.threw THEN acc
    ELSE IF d.opacity.vias = 0 THEN acc
    ELSE via_layer_rebuilt(
           acc,
           FirstThrow(Len(d.vias), LAMBDA k : via_throws(d, hc, k)),
           DrawnBefore(FirstThrow(Len(d.vias), LAMBDA k : via_throws(d, hc, k)),
                       Len(d.vias), LAMBDA k : via_labels(d, hc, k)))

\* is_any_layer_highlighted() ? primary_high_contrast_copper_layer_name() : null
high_contrast_primary_cu(d) == d.highlighted

any_via_enabled(d) == d.opacity.vias # 0

any_track_enabled(d, hc) ==
    IF hc # "" THEN d.opacity.tracks # 0 /\ d.visible[hc]
    ELSE \E cu \in CopperNames : d.opacity.tracks # 0 /\ d.visible[cu]

\* The statements inside the try of #update_dynamic_track_net_labels.
dynamic_pass(d) ==
    IF ~any_track_enabled(d, high_contrast_primary_cu(d)) /\ ~any_via_enabled(d)
    THEN PassResult(d.track_labels, d.via_labels, FALSE, {}, {})
    ELSE via_loop(d, high_contrast_primary_cu(d),
                  track_loop(d, high_contrast_primary_cu(d), 1,
                             PassResult(d.track_labels, d.via_labels, FALSE, {}, {})))

\* An #update_dynamic_track_net_labels without its try and catch.
update_dynamic_track_net_labels_Uncaught(d) == dynamic_pass(d)

\* #update_dynamic_track_net_labels: the catch swallows what was thrown.
update_dynamic_track_net_labels(d) == [dynamic_pass(d) EXCEPT !.escaped = FALSE]

\* What the last step was and, for a draw, what it did.
DrawNote(op, r, base) ==
    [op |-> op, threw |-> r.threw, escaped |-> r.escaped, base |-> base,
     drawn |-> r.drawn, drawn_vias |-> r.drawn_vias]

NoDraw(op) == DrawNote(op, PassResult(<<>>, {}, FALSE, {}, {}), FALSE)

\* BoardViewer.draw after the dynamic pass: super.draw() runs unless the
\* pass threw.
draw_after_update(d, r) ==
    [d EXCEPT !.track_labels = r.track_labels,
              !.via_labels = r.via_labels,
              !.last = DrawNote("draw", r, ~r.escaped)]

\* BoardViewer.draw
draw(d) == draw_after_update(d, update_dynamic_track_net_labels(d))

DynStep(d) ==
    /\ dyn' = d
    /\ UNCHANGED <<cvars, svars, rvars, pair, keys, store, host, nOps, focus,
                   block, label, fp, mods>>

Draw == dyn.last.op # "" /\ DynStep(draw(dyn))

\* The user zooms.
SetZoom(z) == z # dyn.zoom /\ DynStep([dyn EXCEPT !.zoom = z, !.last = NoDraw("zoom")])

\* The user shows or hides a copper layer in the layers panel: the panel's
\* map and the layer change, and with the layer its track label layer.
ToggleCopper(cu) ==
    /\ cu \in DOMAIN dyn.visible
    /\ DynStep([dyn EXCEPT !.visibilities[cu] = ~@, !.visible[cu] = ~@,
                           !.last = NoDraw("toggle")])

\* The user switches "Net Names (Tracks/Vias)": the opacity of every track
\* label layer and of the via label layer.
SetNetNames(p) ==
    /\ dyn.opacity.tracks # (IF p THEN 1 ELSE 0)
    /\ DynStep([dyn EXCEPT !.opacity = [tracks |-> IF p THEN 1 ELSE 0,
                                        vias |-> IF p THEN 1 ELSE 0],
                           !.last = NoDraw("netnames")])

\* The user highlights a copper layer, or none.
Highlight(cu) ==
    /\ dyn.highlighted # cu
    /\ DynStep([dyn EXCEPT !.highlighted = cu, !.last = NoDraw("highlight")])

DynNext ==
    \/ Draw
    \/ \E z \in Zooms : SetZoom(z)
    \/ \E cu \in CopperNames : ToggleCopper(cu)
    \/ \E p \in BOOLEAN : SetNetNames(p)
    \/ \E cu \in CopperNames \cup {""} : Highlight(cu)

\* The viewer of a board that was just loaded: nothing is drawn yet.
DynStart(segs, vias) ==
    dyn = [segs |-> segs, vias |-> vias, zoom |-> 1,
           visible |-> [cu \in CopperNames |-> TRUE],
           visibilities |-> [cu \in CopperNames |-> TRUE],
           opacity |-> [tracks |-> 1, vias |-> 1],
           highlighted |-> "",
           track_labels |-> [cu \in CopperNames |-> {}],
           via_labels |-> {},
           last |-> NoDraw("load")]

\* The segments of SpecTracks: one on F.Cu, of any net, width, place and
\* length, and one on B.Cu; either may be malformed.
TrackBoards ==
    {<<Segment("F.Cu", net, width, start, len, FALSE),
       Segment("B.Cu", 1, 2, 0, 6, bad)>> :
        net \in {0, 1, 3}, width \in {1, 2}, start \in {0, 8}, len \in {2, 6, 20},
        bad \in BOOLEAN}
    \cup {<<Segment("F.Cu", 1, 2, 0, 6, TRUE), Segment("B.Cu", 1, 2, 0, 6, FALSE)>>}

GoodVia == Via("through-hole", <<"F.Cu", "B.Cu">>, 1, 5, 5, FALSE)

\* The vias of SpecVias: one via of any type, span, net, size and place,
\* well-formed or not.
ViaBoards ==
    {<<Via(type, layers, net, size, at, bad)>> :
        type \in {"through-hole", "blind"},
        layers \in {<<"F.Cu", "B.Cu">>, <<"F.Cu", "In1.Cu">>, <<"In1.Cu", "B.Cu">>},
        net \in {0, 1}, size \in {2, 5}, at \in {5, 15}, bad \in BOOLEAN}
      \ {<<Via("through-hole", layers, net, size, at, bad)>> :
            layers \in {<<"F.Cu", "In1.Cu">>, <<"In1.Cu", "B.Cu">>},
            net \in {0, 1}, size \in {2, 5}, at \in {5, 15}, bad \in BOOLEAN}

GoodSegs == <<Segment("F.Cu", 1, 2, 0, 6, FALSE)>>

(***************************************************************************)
(* SpecZones: a board viewer whose user double-clicks footprints and items *)
(* of a net, clicks the background and toggles copper layers.              *)
(***************************************************************************)
\* LayerSet.zone_layers(): one zone layer for each copper layer.
ZoneLayers == {":Zones:F.Cu", ":Zones:B.Cu"}

ZoneCopper(z) == IF z = ":Zones:F.Cu" THEN "F.Cu" ELSE "B.Cu"

\* VisibilityType: true, false, or a function, which for a zone layer reads
\* the visibility of its copper layer.
VisibilityTypes == {"true", "false", "function"}

\* new Map<string, VisibilityType>()
NoZones == [z \in {} |-> "false"]

\* ViewLayer.visible, read.
visible(b, z) ==
    IF b.zones[z] = "function" THEN b.layer_visible[ZoneCopper(z)]
    ELSE b.zones[z] = "true"

\* A highlight_fp that saves and hides the zone layers on every call.
highlight_fp_SaveAlways(b, f) ==
    [b EXCEPT !.zones_visibility = b.zones,
              !.zones = [z \in ZoneLayers |-> "false"],
              !.interactive = "footprint"]

\* BoardViewer.highlight_fp
highlight_fp(b, f) ==
    IF DOMAIN b.zones_visibility = {}
    THEN [b EXCEPT !.zones_visibility = b.zones,
                   !.zones = [z \in ZoneLayers |-> "false"],
                   !.interactive = "footprint"]
    ELSE [b EXCEPT !.interactive = "footprint"]

\* BoardViewer.highlight_net on the board of SpecZones.
highlight_net_board(b, num) ==
    IF ~(b.filter_net = num) /\ num # 0
    THEN [b EXCEPT !.filter_net = num, !.interactive = "net",
                   !.should_restore_visibility = TRUE,
                   !.layer_visible = [l \in UILayers |-> FALSE]]
    ELSE b

\* The body of "if (this.#zones_visibility.size)" in on_document_clicked.
zones_restored(b) ==
    IF DOMAIN b.zones_visibility # {}
    THEN [b EXCEPT !.interactive = "",
                   !.zones = [z \in ZoneLayers |-> b.zones_visibility[z]],
                   !.zones_visibility = NoZones]
    ELSE b

\* BoardViewer.on_document_clicked, both of its parts.
on_document_clicked_board(b) ==
    zones_restored(
        IF b.should_restore_visibility
        THEN [b EXCEPT !.layer_visible = b.visibilities,
                       !.should_restore_visibility = FALSE,
                       !.interactive = ""]
        ELSE b)

\* BoardViewer.on_dblclick: net is the net of the item under the pointer, 0
\* for a footprint.
on_dblclick(b, net, f) ==
    IF net # 0 THEN highlight_net_board(b, net)
    ELSE highlight_fp([b EXCEPT !.filter_net = 0], f)

\* What a step leaves for the properties: the operation and the number of
\* highlight_fp calls since the last click before it.
ZoneNote(op, after) == [op |-> op, after |-> after]

ZoneStep(b) ==
    /\ fp' = b
    /\ UNCHANGED <<cvars, svars, rvars, pair, keys, store, host, nOps, focus,
                   block, label, dyn, mods>>

\* The user double-clicks a footprint.
ZoneDblclickFootprint(f) ==
    /\ fp.highlights < MaxHighlights
    /\ ZoneStep([on_dblclick(fp, 0, f) EXCEPT
                    !.highlights = @ + 1,
                    !.before = IF fp.highlights = 0 THEN fp.zones ELSE @,
                    !.last = ZoneNote("highlight_fp", fp.highlights)])

\* The user double-clicks an item of a net.
ZoneDblclickNet(net) ==
    /\ net # fp.filter_net
    /\ ZoneStep([on_dblclick(fp, net, 0) EXCEPT
                    !.last = ZoneNote("highlight_net", fp.highlights)])

\* The user clicks the background.
ZoneClick ==
    /\ fp.last.op # ""
    /\ ZoneStep([on_document_clicked_board(fp) EXCEPT
                    !.highlights = 0,
                    !.last = ZoneNote("click", fp.highlights)])

\* The user shows or hides a copper layer in the layers panel.
ZoneToggle(l) ==
    /\ l \in UILayers
    /\ ZoneStep([fp EXCEPT !.visibilities[l] = ~@, !.layer_visible[l] = ~fp.visibilities[l],
                           !.last = ZoneNote("toggle", fp.highlights)])

ZoneNext ==
    \/ \E f \in 1..2 : ZoneDblclickFootprint(f)
    \/ \E net \in Nets : ZoneDblclickNet(net)
    \/ ZoneClick
    \/ \E l \in UILayers : ZoneToggle(l)

\* A board that was just loaded: its zone layers are shown, hidden or
\* follow their copper layers.
ZoneStart(zones) ==
    fp = [zones |-> zones, zones_visibility |-> NoZones,
          layer_visible |-> [l \in UILayers |-> TRUE],
          visibilities |-> [l \in UILayers |-> TRUE],
          should_restore_visibility |-> FALSE, filter_net |-> 0,
          interactive |-> "", highlights |-> 0, before |-> zones,
          last |-> ZoneNote("load", 0)]

(***************************************************************************)
(* SpecModules: the blocks of one page ask for the viewer module. The page *)
(* keeps one module map for all of them, keyed by the resolved URL, and    *)
(* one registry of custom elements.                                        *)
(***************************************************************************)
PageOrigin == "http://a"

\* The module URLs the blocks carry: relative or absolute, with or without
\* a version in the query.
ModuleUrls ==
    [origin : {"", PageOrigin}, pathname : {"/m.js", "/n.js"},
     search : {"", "?v=2"}, hash : {""}]

\* new URL(moduleUrl, window.location.href)
ResolvedUrl(moduleUrl) ==
    [moduleUrl EXCEPT !.origin = IF @ = "" THEN PageOrigin ELSE @]

\* normalizeModuleKey
normalizeModuleKey(moduleUrl) ==
    <<ResolvedUrl(moduleUrl).origin, ResolvedUrl(moduleUrl).pathname>>

ModuleKeys == {normalizeModuleKey(u) : u \in ModuleUrls}

\* import(moduleUrl): a URL the module map has not seen is fetched and
\* evaluated; one it has seen is only waited for.
import_started(m, moduleUrl) ==
    IF ResolvedUrl(moduleUrl) \in DOMAIN m.module_map THEN m
    ELSE [m EXCEPT !.module_map =
              [u \in DOMAIN @ \cup {ResolvedUrl(moduleUrl)} |->
                  IF u \in DOMAIN @ THEN @[u] ELSE "loading"]]

\* ensureEcadModule up to its first await: the call is over (ret) or waits
\* for the import.
ensureEcadModule(m, moduleUrl) ==
    IF normalizeModuleKey(moduleUrl) \in m.loadedModules THEN m
    ELSE IF m.defined
    THEN [m EXCEPT !.loadedModules = @ \cup {normalizeModuleKey(moduleUrl)}]
    ELSE [import_started(m, moduleUrl) EXCEPT !.calls = Append(@, moduleUrl)]

\* ensureEcadModule after "await import(moduleUrl)", for the waiting call i:
\* loadedModules.add(key) when the import succeeded; a failed import rejects
\* the call.
ensureEcadModule_resumed(m, i) ==
    [m EXCEPT !.calls = SubSeq(@, 1, i - 1) \o SubSeq(@, i + 1, Len(@)),
              !.loadedModules =
                  IF m.module_map[ResolvedUrl(m.calls[i])] = "done"
                  THEN @ \cup {normalizeModuleKey(m.calls[i])} ELSE @,
              !.rejected = @ \/ m.module_map[ResolvedUrl(m.calls[i])] = "failed"]

\* The module at url is evaluated: it defines <ecad-viewer>, which throws
\* when the element is defined already.
module_evaluated(m, url) ==
    [m EXCEPT !.module_map[url] = IF m.defined THEN "failed" ELSE "done",
              !.defined = TRUE,
              !.imported[normalizeModuleKey(url)] = @ + 1]

ModStep(m) ==
    /\ mods' = m
    /\ UNCHANGED <<cvars, svars, rvars, pair, keys, store, host, nOps, focus,
                   block, label, dyn, fp>>

\* A block renders: refreshNativeViewer calls ensureEcadModule.
ModCall(moduleUrl) ==
    /\ mods.nCalls < MaxModuleCalls
    /\ ModStep([ensureEcadModule(mods, moduleUrl) EXCEPT !.nCalls = @ + 1])

\* The browser has fetched a module and evaluates it.
ModEvaluate(url) ==
    /\ url \in DOMAIN mods.module_map
    /\ mods.module_map[url] = "loading"
    /\ ModStep(module_evaluated(mods, url))

\* The import a call waits for has settled.
ModResume(i) ==
    /\ i \in 1..Len(mods.calls)
    /\ mods.module_map[ResolvedUrl(mods.calls[i])] # "loading"
    /\ ModStep(ensureEcadModule_resumed(mods, i))

ModNext ==
    \/ \E moduleUrl \in ModuleUrls : ModCall(moduleUrl)
    \/ \E url \in ModuleUrls : ModEvaluate(url)
    \/ \E i \in 1..MaxModuleCalls : ModResume(i)

\* A page that was just opened: no block has rendered.
ModStart ==
    mods = [loadedModules |-> {}, defined |-> FALSE, module_map |-> <<>>,
            calls |-> <<>>, imported |-> [k \in ModuleKeys |-> 0],
            rejected |-> FALSE, nCalls |-> 0]

(***************************************************************************)
(* SpecRetry: a loaded viewer whose board app is rendered while its board  *)
(* viewer and its nets panel are still to come; the host replays view      *)
(* states, the retries run, the panels come into being.  The callback of   *)
(* later() runs once it is scheduled, and a panel that is being rendered   *)
(* is there in the end: both are weakly fair.                              *)
(***************************************************************************)
RetryStart ==
    /\ viewer = [LoadedViewer EXCEPT !.board_viewer = FALSE, !.listeners = FALSE,
                                     !.nets_panel = FALSE]
    /\ window = Window(FALSE, FALSE, FALSE, FALSE, FALSE, 1, TRUE)
    /\ threads = <<>>
    /\ nRequests = 0
    /\ nToggles = 0
    /\ nReplays = 0
    /\ nPicks = 0
    /\ notes = <<>>
    /\ sev = NoShellEvent

RetryNext ==
    \/ \E state \in ReplayStates : nReplays < MaxRetryReplays /\ SetViewState(state)
    \/ RetryViewState
    \/ BoardViewerReady
    \/ NetsPanelReady

\* Weak fairness of RetryViewState is written out: the callback is enabled
\* exactly while #view_state_retry_scheduled is set, and running it changes
\* that flag or the retry count.
RetryFairness ==
    /\ ([]<>(~viewer.view_state_retry_scheduled) \/ []<><<RetryViewState>>_vars)
    /\ WF_vars(BoardViewerReady)
    /\ WF_vars(NetsPanelReady)

(***************************************************************************)
(* SpecKey: sourcesKey applied to two source sets of blobs that differ in   *)
(* one code unit of one content or in one filename.                        *)
(***************************************************************************)
KeyNames == {F_board, F_root}

KeyContents == {C_board, C_board2, C_long, C_longEdge, C_longTail}

KeyBlobs == {Blob(f, c) : f \in KeyNames, c \in KeyContents}

KeySources ==
    UNION { {[urls |-> <<>>, blobs |-> b] : b \in [1..n -> KeyBlobs]} : n \in 1..MaxBlobs }

\* the positions at which two contents of one length differ
UnitsApart(c, d) == {k \in 1..Len(c) : c[k] # d[k]}

OneUnitApart(c, d) == Len(c) = Len(d) /\ Cardinality(UnitsApart(c, d)) = 1

OneChange(a) ==
    UNION { {[a EXCEPT !.blobs[i].content = d] :
                d \in {e \in KeyContents : OneUnitApart(a.blobs[i].content, e)}}
            \cup {[a EXCEPT !.blobs[i].filename = g] :
                g \in KeyNames \ {a.blobs[i].filename}}
          : i \in 1..Len(a.blobs) }

KeyIdle == pair = <<>> /\ keys = <<>>

KeyStart ==
    /\ \E a \in KeySources : \E b \in OneChange(a) : pair = <<a, b>>
    /\ keys = <<>>

ComputeKeys ==
    /\ pair # <<>> /\ keys = <<>>
    /\ keys' = <<sourcesKey(pair[1]), sourcesKey(pair[2])>>
    /\ UNCHANGED <<pair, store, host, nOps, focus, block, label, yvars, cvars, svars, rvars>>

KeyNext == ComputeKeys

(***************************************************************************)
(* SpecState: the view state of one viewer as objects, a host that calls   *)
(* setViewState and getViewState, keeps the objects it gets and writes     *)
(* into them, and the load that applies the pending state.                 *)
(***************************************************************************)
StateNext ==
    \/ \E lit \in Literals, keep \in BOOLEAN : nOps < MaxOps /\ HostSetNew(lit, keep)
    \/ \E keep \in BOOLEAN : nOps < MaxOps /\ HostSetHeld(keep)
    \/ nOps < MaxOps /\ HostGet
    \/ \E a \in 1..Len(store.objs) : \E key \in DOMAIN store.objs[a].f :
          nOps < MaxOps /\ HostMutate(a, key)
    \/ \E rdy \in BOOLEAN, keep \in BOOLEAN : LoadCompletes(rdy, keep)
    \/ PanelsReady
    \/ \E keep \in BOOLEAN : RetryPending(keep)

CacheInit == CacheStart /\ ShellIdle /\ KeyIdle /\ StoreIdle /\ FocusIdle /\ BlockIdle /\ LabelIdle /\ YIdle

ShellInit == CacheStart /\ ShellStart /\ KeyIdle /\ StoreIdle /\ FocusIdle /\ BlockIdle /\ LabelIdle /\ YIdle

ReplayInit == CacheStart /\ ReplayStart /\ KeyIdle /\ StoreIdle /\ FocusIdle /\ BlockIdle /\ LabelIdle /\ YIdle

KeyInit == CacheStart /\ ShellIdle /\ KeyStart /\ StoreIdle /\ FocusIdle /\ BlockIdle /\ LabelIdle /\ YIdle

StateInit == CacheStart /\ ShellIdle /\ KeyIdle /\ StoreIdle /\ FocusIdle /\ BlockIdle /\ LabelIdle /\ YIdle

SpecCache == CacheInit /\ [][CacheNext]_vars

SpecShare == CacheInit /\ [][ShareNext]_vars

SpecFiles == CacheInit /\ [][FilesNext]_vars

SpecShell == ShellInit /\ [][ShellNext]_vars

SpecReplay == ReplayInit /\ [][ReplayNext]_vars

SpecRoute == CacheInit /\ [][RouteNext]_vars

SpecSnap == CacheInit /\ [][SnapNext]_vars

SpecTwice == CacheInit /\ [][TwiceNext]_vars

SpecPages == CacheInit /\ [][PagesNext]_vars

TracksInit ==
    /\ CacheStart /\ ShellIdle /\ KeyIdle /\ StoreIdle /\ FocusIdle /\ BlockIdle
    /\ LabelIdle /\ FpIdle /\ ModsIdle
    /\ \E segs \in TrackBoards : DynStart(segs, <<GoodVia>>)

ViasInit ==
    /\ CacheStart /\ ShellIdle /\ KeyIdle /\ StoreIdle /\ FocusIdle /\ BlockIdle
    /\ LabelIdle /\ FpIdle /\ ModsIdle
    /\ \E vias \in ViaBoards : DynStart(GoodSegs, vias)

SpecTracks == TracksInit /\ [][DynNext]_vars

SpecVias == ViasInit /\ [][DynNext]_vars

ZonesInit ==
    /\ CacheStart /\ ShellIdle /\ KeyIdle /\ StoreIdle /\ FocusIdle /\ BlockIdle
    /\ LabelIdle /\ DynIdle /\ ModsIdle
    /\ \E zones \in [ZoneLayers -> VisibilityTypes] : ZoneStart(zones)

SpecZones == ZonesInit /\ [][ZoneNext]_vars

ModulesInit ==
    /\ CacheStart /\ ShellIdle /\ KeyIdle /\ StoreIdle /\ FocusIdle /\ BlockIdle
    /\ LabelIdle /\ DynIdle /\ FpIdle
    /\ ModStart

SpecModules == ModulesInit /\ [][ModNext]_vars

RetryInit == CacheStart /\ RetryStart /\ KeyIdle /\ StoreIdle /\ FocusIdle /\ BlockIdle /\ LabelIdle /\ YIdle

SpecRetry == RetryInit /\ [][RetryNext]_vars /\ RetryFairness

LabelInit == CacheStart /\ ShellIdle /\ KeyIdle /\ StoreIdle /\ FocusIdle /\ BlockIdle /\ LabelStart /\ YIdle

SpecLabel == LabelInit /\ [][LabelNext]_vars

LayersInit ==
    CacheStart /\ LayersStart /\ KeyIdle /\ StoreIdle /\ FocusIdle /\ BlockIdle /\ LabelIdle /\ YIdle

SpecLayers == LayersInit /\ [][LayersNext]_vars

HostInit == CacheStart /\ HostStart /\ KeyIdle /\ StoreIdle /\ FocusIdle /\ LabelIdle /\ YIdle

SpecHost == HostInit /\ [][HostNext]_vars

SpecFull == ShellInit /\ [][FullNext]_vars

SpecKey == KeyInit /\ [][KeyNext]_vars

SpecState == StateInit /\ [][StateNext]_vars

(***************************************************************************)
(* Properties of the snapshot cache and of Project.load.                   *)
(***************************************************************************)

\* C1: a load of sources S issued after a load of the same S completed, while
\* the entry that load wrote is still cached and within the TTL, is a cache
\* hit: it fetches no file, parses no document, and leaves the calling
\* Project - the same one or another - with the files_by_name keys, the
\* pages and the bom_items the first load ended with.
C1_SecondLoadIsServedFromCache ==
    ev.eligible =>
        /\ ev.type = "hit"
        /\ ev.fetches = 0
        /\ ev.parses = 0
        /\ MapHas(firstEnd, ev.key[1])
        /\ EndState(MapGet(firstEnd, ev.key[1]).src, proj[ev.proj])
             = MapGet(firstEnd, ev.key[1])

\* Project 1 loaded the sources, project 2 then asked for them and got the
\* pages and a non-empty BOM from the snapshot.
C1_Witness ==
    /\ ev.eligible /\ ev.type = "hit" /\ ev.proj = 2
    /\ nLoads = 2 /\ proj[1].loaded
    /\ proj[2].bom_items # <<>>
    /\ proj[2].files_by_name # <<>>

\* C2: a cache-miss load one of whose files failed to fetch or to parse
\* still ends by opening the loaded gate and emitting the load event.
C2_FailedFileDoesNotAbortLoad ==
    ev.failed => ev.emitted /\ proj[ev.proj].loaded

\* C8: a file load that was in flight when dispose() ran and resolves
\* afterwards changes none of the maps and arrays dispose() cleared.
C8_LateFileLoadAddsNothing ==
    (ev.type = "resolve" /\ ev.late) => ~ev.added

\* C9: the cache never holds more than PROJECT_CACHE_MAX entries; after a
\* write the written entry is still there, and no entry that was dropped
\* had been used more recently than one that was kept.
C9_CacheKeepsMostRecentlyUsed ==
    /\ Len(cache) <= PROJECT_CACHE_MAX
    /\ ev.wrote =>
          /\ MapHas(cache, ev.key[1])
          /\ \A i \in 1..Len(cache) : \A t \in ev.evicted :
                cache[i][2].lastUsedAt >= t

\* A write into a full cache dropped an entry that had not expired.
C9_Witness ==
    /\ ev.wrote
    /\ Len(cache) = PROJECT_CACHE_MAX
    /\ ev.evicted # {}
    /\ \A t \in ev.evicted : now - t <= PROJECT_CACHE_TTL_MS

\* C10: a load is served from the cache only if the entry for its key was
\* last used at most PROJECT_CACHE_TTL_MS before the load.
C10_HitOnlyWithinTtl ==
    ev.type = "hit" => ev.age >= 0 /\ ev.age <= PROJECT_CACHE_TTL_MS

\* A hit on an entry last used exactly PROJECT_CACHE_TTL_MS ago.
C10_Witness ==
    ev.type = "hit" /\ ev.age = PROJECT_CACHE_TTL_MS

(***************************************************************************)
(* Properties of the viewer.                                               *)
(***************************************************************************)

\* C3: every view-state-change event dispatched while a setViewState call,
\* the replay of the pending state after a load, or a retry of it is
\* running carries origin "restore".
C3_ReplayNotifiesOnlyAsRestore ==
    \A i \in 1..Len(notes) : notes[i].cause = "replay" => notes[i].origin = "restore"

\* C4: no step issues a fetch of sources while the viewer is collapsed, and
\* a load request made while it is collapsed fetches nothing, starts
\* nothing and leaves a deferred-load descriptor recorded.
C4_NoFetchWhileCollapsed ==
    /\ ~sev.fetchCollapsed
    /\ (sev.type = "request" /\ sev.wasCollapsed) =>
          /\ sev.fetches = 0
          /\ sev.newThreads = 0
          /\ viewer.deferred_load # NoDeferred

\* The entry point a deferred-load descriptor of that kind stands for.
EntryOf(kind) ==
    IF kind = "zipUrl" THEN "load_window_zip_url"
    ELSE IF kind = "zipBlob" THEN "load_zip"
    ELSE "load_src"

\* C5 as stated: expanding a collapsed viewer that is not loaded and has a
\* deferred load recorded starts exactly one load, for the recorded source,
\* and clears the descriptor; expanding a loaded viewer starts none.
C5_ExpandStartsTheDeferredLoad ==
    sev.exp.happened =>
        /\ (~sev.exp.loaded /\ sev.exp.had # NoDeferred) =>
              /\ Len(sev.exp.started) = 1
              /\ sev.exp.started[1].entry = EntryOf(sev.exp.had.kind)
              /\ viewer.deferred_load = NoDeferred
        /\ sev.exp.loaded => Len(sev.exp.started) = 0

\* C5, amended: expanding a collapsed viewer that is neither loaded nor
\* loading and has a deferred load recorded starts exactly one load, through
\* the entry point and for the resource the descriptor names, and clears
\* the descriptor; expanding while a load is running starts none and keeps
\* the descriptor; expanding a loaded viewer that is not loading starts
\* none and drops the descriptor; with no descriptor nothing is started.
C5_ExpandStartsTheDeferredLoadUnlessLoading ==
    sev.exp.happened =>
        /\ (~sev.exp.loaded /\ ~sev.exp.loading /\ sev.exp.had # NoDeferred) =>
              /\ Len(sev.exp.started) = 1
              /\ sev.exp.started[1].entry = EntryOf(sev.exp.had.kind)
              /\ sev.exp.had.kind # "src" =>
                    sev.exp.started[1].what = sev.exp.had.what
              /\ viewer.deferred_load = NoDeferred
        /\ sev.exp.loading =>
              /\ Len(sev.exp.started) = 0
              /\ viewer.deferred_load = sev.exp.had
        /\ (sev.exp.loaded /\ ~sev.exp.loading) =>
              /\ Len(sev.exp.started) = 0
              /\ viewer.deferred_load = NoDeferred
        /\ sev.exp.had = NoDeferred => Len(sev.exp.started) = 0

\* An idle, collapsed viewer with a deferred zip URL was expanded and the
\* fetch of that URL is under way.
C5_Witness ==
    /\ sev.exp.happened
    /\ ~sev.exp.loaded /\ ~sev.exp.loading
    /\ sev.exp.had.kind = "zipUrl"
    /\ Len(sev.exp.started) = 1
    /\ sev.exp.started[1].pc = "zu_fetch"
    /\ ~viewer.is_viewer_collapsed

\* C6: a load whose fetch was issued goes on when the fetch answers,
\* whether or not the viewer was collapsed in the meantime.
C6_CollapseDoesNotStopStartedLoad ==
    sev.type = "fetched" => sev.proceeded

\* C7: at most one Project.load of the viewer's Project is in flight.
C7_OneProjectLoadInFlight ==
    Cardinality(ProjectLoadsInFlight) <= 1


(***************************************************************************)
(* Properties of the cache key.                                            *)
(***************************************************************************)

\* the blob in which the two source sets of the pair differ
ChangedBlob == CHOOSE i \in 1..Len(pair[1].blobs) : pair[1].blobs[i] # pair[2].blobs[i]

FilenameChanged ==
    pair[1].blobs[ChangedBlob].filename # pair[2].blobs[ChangedBlob].filename

\* the position of the code unit that differs, when the content was changed
ChangedUnit ==
    CHOOSE k \in UnitsApart(pair[1].blobs[ChangedBlob].content,
                            pair[2].blobs[ChangedBlob].content) : TRUE

C12_AtMostFiftyRetries ==
    viewer.view_state_retry_count <= VIEW_STATE_RETRY_MAX

\* C13 as stated: every fragment passed to setViewState before the viewer is
\* loaded is applied once the load completes - when no view state is pending
\* any more on the loaded viewer, every key a fragment submitted before the
\* load carried has been replayed onto the viewer.
C13_FragmentsBeforeLoadAreAllApplied ==
    (store.loaded /\ store.pending_view_state = 0)
        => Paths(store.submitted) \subseteq Paths(store.replayed)

\* C14 as stated: a merge changes only the keys of the fragment - every key
\* the view state had before, down to the single entries of pcb.layers,
\* pcb.objects, pcb.objects.objectVisibilities and pcb.nets, is still there
\* with its value unless the fragment carries that key.
C14_MergeKeepsEarlierKeys ==
    [][store'.step # "mutate" =>
          \A e \in Value(store.objs, store.view_state) :
              e[1] \notin store'.merged => e \in Value(store'.objs, store'.view_state)]_vars

\* C18 as stated: when the host writes into an object it got from
\* getViewState() or from a notification, the viewer's view state is what it
\* was before the write.
C18_WritesToReturnedObjectsStayOutside ==
    [][(store'.step = "mutate" /\ host.from \in {"get", "event"}) =>
          Value(store'.objs, store'.view_state) = Value(store.objs, store.view_state)]_vars

\* What a board shows: the visibility of its layers, the opacity of its
\* copper layers and the net its overlay layers are painted for.
Shown(v) == <<v.layer_visible, v.copper_opacity, v.overlay>>

\* C15: on a loaded viewer, a fragment applied a second time right after
\* the first leaves the layers' visibility, their opacity and the focused
\* net as the first application left them.
C15_ApplyTwiceIsApplyOnce ==
    [][(focus.op = "apply" /\ focus'.op = "apply" /\ focus'.fragment = focus.fragment)
          => Shown(viewer') = Shown(viewer)]_vars

C17_ClearWithoutFocus ==
    [][(focus'.op = "clear" /\ ~viewer.should_restore_visibility)
          => /\ viewer'.layer_visible = viewer.layer_visible
             /\ viewer'.overlay = viewer.overlay
             /\ focus'.cleared = 1]_vars

\* clear_net_focus has been called on a board with no net focus
C17_Witness == focus.op = "clear" /\ ~focus.active /\ focus.cleared = 1

\* the view states of the events of the last step whose origin is not
\* "restore", in their order
NotRestored == SelectSeq(notes, LAMBDA n : n.origin # "restore")

\* C19: the block writes the view state of an event into its data and
\* signals a change to the editor for the events whose origin is not
\* "restore" and for no other; those of origin "user" are written at once,
\* also before the initial restore has finished.
C19_PersistsAllButRestore ==
    block.phase # "none" =>
        /\ block.changes = Len(NotRestored)
        /\ block.written = [i \in 1..Len(NotRestored) |-> NotRestored[i].viewState]
        /\ NotRestored # <<>> => block.viewState = NotRestored[Len(NotRestored)].viewState

\* a user's change was written before the initial restore had finished
C19_Witness ==
    /\ block.phase \in {"created", "aligned"} /\ ~block.allowPersistViewState
    /\ block.changes = 1
    /\ \E i \in 1..Len(notes) : notes[i].origin = "user"


\* C20: while the page is full screen for a viewer, as the original or as
\* the clone, setViewerCollapsed, toggleViewerCollapsed and setViewState
\* with a collapsed key leave the collapsed flag as it is and start no
\* deferred load.
C20_NoCollapseInFullscreen ==
    [][(isPageFullscreenActive(viewer) /\ sev'.type \in {"collapse", "replay"})
          => /\ viewer'.is_viewer_collapsed = viewer.is_viewer_collapsed
             /\ viewer'.deferred_load = viewer.deferred_load
             /\ ~sev'.exp.happened
             /\ sev'.newThreads = 0 /\ sev'.fetches = 0]_vars

\* a folded full-screen viewer with a load put off was asked to unfold
C20_Witness ==
    /\ viewer.is_full_screen /\ viewer.is_viewer_collapsed
    /\ viewer.deferred_load # NoDeferred
    /\ sev.type \in {"collapse", "replay"}

\* C21: while the viewer is loaded, neither a view state that is applied,
\* with its collapse step and its retries, nor setViewerCollapsed calls
\* update().
C21_NoUpdateWhileLoaded ==
    [][(viewer.loaded /\ sev'.type \in {"collapse", "replay"}) => sev'.updates = 0]_vars

\* a loaded viewer was folded or unfolded, by its user or by a replay
C21_Witness ==
    /\ viewer.loaded /\ sev.type \in {"collapse", "replay"} /\ sev.updates = 0
    /\ sev.wasCollapsed # viewer.is_viewer_collapsed


NamesOf(src) ==
    {src.urls[i] : i \in 1..Len(src.urls)}
    \cup {src.blobs[i].filename : i \in 1..Len(src.blobs)}

\* The file names for which the sequence of documents holds one.
DocNames(docs) == {docs[i].filename : i \in 1..Len(docs)}

\* C23: when a load of sources completes, every source whose name ends in
\* .kicad_pcb, .kicad_sch or .kicad_pro in any letter case was handed to
\* the board, schematic or settings parser (the project holds its board,
\* its schematic, the loaded settings), a source with another suffix left
\* no document, and no file of the load failed.
C23_RoutedByLowerCasedSuffix ==
    ev.type = "final" =>
        LET src == MapGet(firstEnd, ev.key[1]).src
            p   == proj[ev.proj]
        IN  /\ ~ev.failed
            /\ \A f \in NamesOf(src) :
                  /\ LowerCase(f.suffix) = ".kicad_pcb" => f \in DocNames(p.pcb)
                  /\ LowerCase(f.suffix) = ".kicad_sch" => f \in DocNames(p.sch)
                  /\ LowerCase(f.suffix) = ".kicad_pro" => p.settings = "loaded"
                  /\ LowerCase(f.suffix) \notin {".kicad_pcb", ".kicad_sch", ".kicad_pro"}
                        => ~MapHas(p.files_by_name, f)


\* The part of a name after its last "/": the whole name when it has none.
IsPartAfterLastSlash(text, name) ==
    /\ \A i \in 1..Len(text) : text[i] # "/"
    /\ \/ name = text
       \/ \E k \in 1..Len(name) :
             name[k] = "/" /\ text = [i \in 1..(Len(name) - k) |-> name[k + i]]

\* The texts painted so far for the name.
PaintedTexts == {label[what].text : what \in label.done}

\* C24 as first stated: the text shown on a pad, along a track and on a via
\* is the part of the net name after its last "/", the whole name when it
\* has none.
C24_ShownIsPartAfterLastSlash ==
    \A text \in PaintedTexts : IsPartAfterLastSlash(text, label.name)

\* C24: the text shown on a pad, along a track and on a via is the part of
\* the net name after its last "/", the whole name when it has none, unless
\* that part begins with "unconnected" in any letter case, for which "x" is
\* shown.
C24_ShownIsPartAfterLastSlashOrX ==
    \A text \in PaintedTexts :
        \E part \in NetNames :
            /\ IsPartAfterLastSlash(part, label.name)
            /\ text = IF part # <<>> /\ LowerCase(part[1]) = "unconnected"
                      THEN <<"x">> ELSE part

\* a name with a "/" before its end is painted in all three places
C24_Witness ==
    /\ label.done = {"pad", "track", "via"}
    /\ \E k \in 1..(Len(label.name) - 1) : label.name[k] = "/"
    /\ label.pad.drawn /\ label.track.drawn /\ label.via.drawn
    /\ label.pad.text # <<"x">>
    /\ Len(label.pad.text) < Len(label.name)


\* The documents a load of the sources parses when every fetch succeeds: one
\* per board or schematic file, with the content fetched or given.
DocsOf(src) ==
    {NewDoc(IF EndsWith(src.urls[i], ".kicad_pcb") THEN "pcb" ELSE "sch",
            src.urls[i], ServerContent(src.urls[i])) :
        i \in {j \in 1..Len(src.urls) :
                 EndsWith(src.urls[j], ".kicad_pcb") \/ EndsWith(src.urls[j], ".kicad_sch")}}
    \cup
    {NewDoc(IF EndsWith(src.blobs[i].filename, ".kicad_pcb") THEN "pcb" ELSE "sch",
            src.blobs[i].filename, src.blobs[i].content) :
        i \in {j \in 1..Len(src.blobs) :
                 EndsWith(src.blobs[j].filename, ".kicad_pcb")
                 \/ EndsWith(src.blobs[j].filename, ".kicad_sch")}}

\* C25: every snapshot in the cache was written by a completed load of the
\* sources of its key and holds exactly the documents parsed from the files
\* of these sources.
C25_SnapshotHoldsItsSources ==
    \A i \in 1..Len(cache) :
        /\ MapHas(firstEnd, cache[i][1])
        /\ sourcesKey(MapGet(firstEnd, cache[i][1]).src) = cache[i][1]
        /\ {cache[i][2].files_by_name[j][2] : j \in 1..Len(cache[i][2].files_by_name)}
             = DocsOf(MapGet(firstEnd, cache[i][1]).src)


\* What a snapshot holds, its label arrays read through the heap hp, but
\* for lastUsedAt.
SnapshotContents(snap, hp) ==
    [snap EXCEPT !.lastUsedAt = 0,
                 !.label_name_refs = [i \in 1..Len(@) |-> <<@[i][1], hp[@[i][2]]>>]]

\* C26: a step that does not write the entry of a key anew leaves the
\* contents of the snapshot under that key as they were, the lists of
\* references of its label names included; only lastUsedAt may differ.
C26_SnapshotIsNeverChanged ==
    [][\A i \in 1..Len(cache) : \A j \in 1..Len(cache') :
          (cache[i][1] = cache'[j][1] /\ ~(ev'.wrote /\ ev'.key = <<cache[i][1]>>))
             => SnapshotContents(cache[i][2], heap) = SnapshotContents(cache'[j][2], heap')]_vars


\* C27: setViewState applies the collapsed key of a fragment when it is
\* submitted, so a collapsed flag that differs from the one of the pending
\* fragment was set after the fragment was submitted; a retry of the
\* pending fragment leaves such a flag as it is.
C27_RetryKeepsLaterValues ==
    [][(/\ RetryViewState
        /\ viewer.pending_view_state.hasCollapsed
        /\ viewer.is_viewer_collapsed # viewer.pending_view_state.collapsed)
          => viewer'.is_viewer_collapsed = viewer.is_viewer_collapsed]_vars


\* C28: on a loaded viewer, a fragment that is pending while the board
\* viewer and the nets panel it waited for are there is applied in full in
\* the end: the pending state is cleared.
C28_PendingIsEventuallyApplied ==
    (/\ viewer.loaded
     /\ viewer.pending_view_state # NoViewState
     /\ viewer.board_viewer /\ viewer.nets_panel)
        ~> (viewer.pending_view_state = NoViewState)


\* No two elements of the sequence of documents have the same filename.
OncePerFilename(docs) ==
    \A i, j \in 1..Len(docs) : docs[i].filename = docs[j].filename => i = j

\* C29: in every state of a Project each filename has at most one document
\* in the map of files, and is the filename of at most one board and of at
\* most one schematic of the arrays, which hold the documents of the map;
\* and a file load that ends on a filename already registered runs no
\* parser: a step that parses registers one more filename.
C29_OneDocumentPerFilename ==
    /\ [](\A pj \in Projects :
            /\ \A i, j \in 1..Len(proj[pj].files_by_name) :
                  proj[pj].files_by_name[i][1] = proj[pj].files_by_name[j][1] => i = j
            /\ OncePerFilename(proj[pj].pcb)
            /\ OncePerFilename(proj[pj].sch)
            /\ \A i \in 1..Len(proj[pj].pcb) :
                  MapGet(proj[pj].files_by_name, proj[pj].pcb[i].filename) = proj[pj].pcb[i]
            /\ \A i \in 1..Len(proj[pj].sch) :
                  MapGet(proj[pj].files_by_name, proj[pj].sch[i].filename) = proj[pj].sch[i])
    /\ [][(ev'.type \in {"resolve", "miss"} /\ ev'.parses > 0)
            => Len(proj'[ev'.proj].files_by_name)
                 = Len(proj[ev'.proj].files_by_name) + ev'.parses]_vars

\* the second of two fetches of one file answers: the file is registered
\* and nothing is parsed
C29_Witness ==
    /\ ev.type = "resolve" /\ ev.parses = 0 /\ ~ev.added /\ ~ev.late
    /\ Len(proj[1].pcb) + Len(proj[1].sch) = 1

\* C30: every highlight_net(n) for a net n > 0 ends with net n focused: the
\* overlay layers show n, every layer of in_ui_order() is hidden and the
\* flag that asks for a later restore is set; this also when n is the net
\* that was focused before the last clear_net_focus or background click.
C30_HighlightAlwaysFocuses ==
    [][\A n \in Nets :
          LayersHighlight(n)
            => /\ viewer'.overlay = n
               /\ \A l \in UILayers : ~viewer'.layer_visible[l]
               /\ viewer'.should_restore_visibility]_vars


\* C31: in every state in which the view state has the key collapsed, its
\* value is the collapsed flag of the viewer: getViewState().collapsed is
\* getViewerCollapsed() whenever it is defined.
C31_ViewStateCollapsedIsTheFlag ==
    viewer.view_state.hasCollapsed
        => viewer.view_state.collapsed = viewer.is_viewer_collapsed


\* C32: the viewer records one deferred-load descriptor.  A load_zip or a
\* load_window_zip_url called while the viewer is collapsed puts its own
\* descriptor in the place of whatever was recorded, and a load_src called
\* while the viewer is collapsed leaves a recorded zip descriptor as it is
\* (it records "src" only when nothing is recorded).
C32_ZipReplacesAndSrcKeeps ==
    [][viewer.is_viewer_collapsed =>
         /\ HostLoadZip => viewer'.deferred_load = Deferred("zipBlob", "file")
         /\ HostLoadZipUrl => viewer'.deferred_load = Deferred("zipUrl", "url")
         /\ \A i \in 1..Len(threads) :
               (ZipFetchDone(i) /\ threads[i].cont = "none")
                  => viewer'.deferred_load = Deferred("zipBlob", threads[i].what)
         /\ ((HostLoadSrc \/ (Mount(TRUE) /\ ~viewer.initial_sources_override))
               => /\ viewer.deferred_load.kind \in {"zipUrl", "zipBlob"}
                     => viewer'.deferred_load = viewer.deferred_load
                  /\ viewer.deferred_load = NoDeferred
                     => viewer'.deferred_load = Deferred("src", "none")
                  /\ threads' = threads)]_vars

\* load_src was called on a collapsed viewer that had the archive of
\* window.zip_url recorded, and the archive is still recorded
C32_Witness ==
    /\ sev.type = "request" /\ sev.wasCollapsed /\ nRequests = 1
    /\ viewer.is_viewer_collapsed
    /\ viewer.deferred_load = Deferred("zipBlob", "zip_url")


\* C33: whenever a Project dispatches its load event with _found_cjk set,
\* at the end of the cache-miss branch or after the restore from a cached
\* snapshot, the extended glyph table has been imported before.
C33_CjkLoadEventHasGlyphs ==
    (ev.emitted /\ ev.cjk) => glyphs

\* a Project restored from a snapshot that has the CJK flag dispatches its
\* load event
C33_Witness ==
    /\ ev.type = "hit" /\ ev.emitted /\ ev.cjk
    /\ proj[ev.proj].found_cjk
    /\ glyphs


\* The root page _determine_schematic_hierarchy makes for the Project, and
\* whether it finds a root at all.
RootPageOf(p) ==
    LET toSch == paths_to_schematics(p)
        paths == SortedPaths(MapKeys(paths_to_sheet_instances(p)))
        ri    == RootIndex(paths, toSch)
    IN  IF ri = 0 THEN NoPage ELSE RootPage(MapGet(toSch, ParentPath(paths[ri])))

\* C34: when _determine_schematic_hierarchy finds a root sheet, the list of
\* pages starts with the page of the root sheet and root_schematic_page is
\* that page, whatever page number the instances of the sub-sheets declare.
C34_PagesStartAtTheRoot ==
    [][\A l \in 1..Len(loads) :
          (LoadSettle(l) /\ has_schematics(proj[loads[l].proj])
             /\ RootPageOf(proj[loads[l].proj]) # NoPage)
            => /\ proj'[loads[l].proj].pages_by_path # <<>>
               /\ proj'[loads[l].proj].pages_by_path[1][2]
                     = RootPageOf(proj[loads[l].proj])
               /\ proj'[loads[l].proj].root_page
                     = RootPageOf(proj[loads[l].proj])]_vars


\* C35: after a draw made while a copper layer is highlighted, only the
\* track label layer of the highlighted layer holds track labels: the track
\* label layer of every other copper layer holds none, also when it held
\* labels of earlier draws.
C35_OnlyPrimaryHoldsTrackLabels ==
    (dyn.last.op = "draw" /\ dyn.highlighted # "")
        => \A cu \in CopperNames \ {dyn.highlighted} : dyn.track_labels[cu] = {}


\* The copper layers a via spans: its start layer, its end layer and those
\* between them in the order of the copper layers.
SpannedLayers(via) ==
    {cu \in CopperNames :
        \/ /\ CopperIndex(cu) >= CopperIndex(via.layers[1])
           /\ CopperIndex(cu) <= CopperIndex(via.layers[2])
        \/ /\ CopperIndex(cu) >= CopperIndex(via.layers[2])
           /\ CopperIndex(cu) <= CopperIndex(via.layers[1])}

\* C36: in a draw that rebuilds the via label layer, a via that meets the
\* other conditions (positive net, inside the viewport, zoom at or above the
\* threshold of vias, crossing the highlighted layer when there is one) has
\* its net name drawn exactly when one of the copper layers it spans, its
\* start layer, its end layer and those between them, is visible.
C36_ViaLabelIffSpansVisibleLayer ==
    (dyn.last.op = "draw" /\ ~dyn.last.threw /\ dyn.opacity.vias # 0)
        => \A k \in 1..Len(dyn.vias) :
              ( /\ dyn.vias[k].net > 0
                /\ dyn.vias[k].at >= ViewportBox.x
                /\ dyn.vias[k].at <= ViewportBox.x + ViewportBox.w
                /\ dyn.zoom * dyn.vias[k].size >= via_netlabel_threshold_mm
                /\ (dyn.highlighted = ""
                      \/ via_crosses_primary_layer(dyn.vias[k], dyn.highlighted)) )
                => ( k \in dyn.via_labels
                       <=> \E cu \in SpannedLayers(dyn.vias[k]) : dyn.visibilities[cu] )


\* C37: an exception thrown while the labels of an item are computed never
\* leaves draw(): it is swallowed, and the draw of the base viewer runs.
C37_DrawSwallowsLabelExceptions ==
    dyn.last.op = "draw" => (~dyn.last.escaped /\ dyn.last.base)

\* a draw in which a malformed segment threw after a label layer was cleared
C37_Witness ==
    /\ dyn.last.op = "draw" /\ dyn.last.threw /\ dyn.last.base
    /\ \E k \in 1..Len(dyn.segs) : dyn.segs[k].malformed /\ segment_throws(dyn, k)


\* C39: in the dynamic pass a label is drawn for a segment only if the net
\* of the segment is positive, the label layer of its copper layer is
\* visible and its opacity is not 0, the zoom is at least 4.0 divided by the
\* width of the segment, the segment is at least as long as its width times
\* the number of characters of the label, and the point of the label lies
\* inside the viewport.
C39_TrackLabelOnlyIfAllHold ==
    dyn.last.op = "draw" =>
        \A lb \in dyn.last.drawn :
            /\ dyn.segs[lb[1]].net > 0
            /\ dyn.visible[dyn.segs[lb[1]].layer]
            /\ dyn.opacity.tracks # 0
            /\ dyn.zoom * dyn.segs[lb[1]].width >= 4
            /\ dyn.segs[lb[1]].len
                 >= dyn.segs[lb[1]].width * char_count(display_netname(dyn.segs[lb[1]].net))
            /\ (num_names(dyn.segs[lb[1]]) + 1) * dyn.segs[lb[1]].start
                   + lb[2] * dyn.segs[lb[1]].len
                 >= 0
            /\ (num_names(dyn.segs[lb[1]]) + 1) * dyn.segs[lb[1]].start
                   + lb[2] * dyn.segs[lb[1]].len
                 <= (num_names(dyn.segs[lb[1]]) + 1) * 10

\* a draw that labels a long segment at the one of its two division points
\* that lies inside the viewport
C39_Witness ==
    /\ dyn.last.op = "draw"
    /\ \E lb \in dyn.last.drawn :
          /\ dyn.segs[lb[1]].len = 20
          /\ lb \in dyn.track_labels[dyn.segs[lb[1]].layer]
          /\ \E ii \in 1..2 : <<lb[1], ii>> \notin dyn.last.drawn


\* C38: when the background is clicked after one or more highlight_fp calls,
\* every zone layer has the visibility it had before the first of these
\* calls, and the saved record of zone visibilities is empty.
C38_ZonesRestoredByClick ==
    (fp.last.op = "click" /\ fp.last.after >= 1) =>
        /\ \A z \in ZoneLayers : fp.zones[z] = fp.before[z]
        /\ DOMAIN fp.zones_visibility = {}

\* a click after two highlight_fp calls on a board with a zone layer that
\* was not hidden before
C38_Witness ==
    /\ fp.last.op = "click" /\ fp.last.after = 2
    /\ \E z \in ZoneLayers : fp.zones[z] # "false" /\ visible(fp, z)


\* C40: the viewer module is fetched and evaluated at most once for each
\* normalized module key (origin and pathname, without query and hash),
\* also when several blocks call ensureEcadModule before the first import
\* has finished.
C40_ModuleImportedOncePerKey ==
    \A k \in ModuleKeys : mods.imported[k] <= 1


=============================================================================
